---- MODULE Spec2Model ----
(***************************************************************************)
(* Model of the text core of organizer.py (syllabus organizer):            *)
(* normalize_pdf_text, split_concatenated_readings, merge_fragmented_lines *)
(* and the classifier of clean_syllabus; beside them find_split_points,    *)
(* the loading of the semantic analyzer and the progress kept by           *)
(* download_readings.                                                      *)
(*                                                                         *)
(* A text is a TLA+ string.  Python offsets are 0-based; the model uses    *)
(* 1-based positions, so Python's text[j] is Char(text, j + 1) and a       *)
(* Python slice text[a:b] is SubSeq(text, a + 1, b).                       *)
(*                                                                         *)
(* The typographic characters that normalize_pdf_text replaces are not     *)
(* ASCII; each is written as an ASCII character that occurs in no pattern  *)
(* of the program (see LSQUO .. WHITEBULLET).                              *)
(*                                                                         *)
(* merge_fragmented_lines keeps the unit it is building in a local named   *)
(* current; the model holds it in pending, a sequence of at most one unit  *)
(* (empty for None).                                                       *)
(***************************************************************************)
EXTENDS Integers, Sequences, FiniteSets, TLC

VARIABLES pc, normIn, normOut, splitIn, splitOut, mergeIn, mergeOut,
          an, runs, counters, callIn, callOut, dl,
          available, doc, lines, merged, pending, idx, stack, stats,
          current_week, log

vars == <<pc, normIn, normOut, splitIn, splitOut, mergeIn, mergeOut,
          an, runs, counters, callIn, callOut, dl,
          available, doc, lines, merged, pending, idx, stack, stats,
          current_week, log>>

\* the variables of the specifications of single functions (callIn and
\* callOut hold the arguments and the result of one call), of the loading of
\* the analyzer (an), of the interleaved runs (runs, counters) and of
\* download_readings (dl)
otherVars == <<an, runs, counters, callIn, callOut, dl>>
funcVars == <<normIn, normOut, splitIn, splitOut, mergeIn, mergeOut, an, runs, counters,
              callIn, callOut, dl>>
docVars == <<available, doc, lines, merged, pending, idx, stack, stats,
             current_week, log>>

(***************************************************************************)
(* Characters                                                              *)
(***************************************************************************)
Lower == {"a","b","c","d","e","f","g","h","i","j","k","l","m",
          "n","o","p","q","r","s","t","u","v","w","x","y","z"}

Upper == {"A","B","C","D","E","F","G","H","I","J","K","L","M",
          "N","O","P","Q","R","S","T","U","V","W","X","Y","Z"}

Digit == {"0","1","2","3","4","5","6","7","8","9"}

\* U+2018, U+2019, U+201C, U+201D, U+2013, U+2014, U+00A0, U+FEFF
LSQUO == "<"
RSQUO == "^"
LDQUO == "{"
RDQUO == "}"
ENDASH == "~"
EMDASH == "="
NBSP == "@"
BOM == "#"
\* U+2022, U+25CF, U+25CB, U+25E6
BULLET == "|"
BLACKCIRCLE == "+"
WHITECIRCLE == "\\"
WHITEBULLET == ">"

\* \w of Python's re on str
WordCh == Lower \cup Upper \cup Digit \cup {"_"}

\* \s of Python's re on str (U+00A0 is white space for str patterns)
Space == {" ", "\t", "\n", "\r", "\f", NBSP}

Char(s, i) == SubSeq(s, i, i)

LowerSeq == "abcdefghijklmnopqrstuvwxyz"
UpperSeq == "ABCDEFGHIJKLMNOPQRSTUVWXYZ"

ToLowerTable ==
  [c \in Upper |-> Char(LowerSeq, CHOOSE k \in 1..26 : Char(UpperSeq, k) = c)]

ToLowerChar(c) == IF c \in Upper THEN ToLowerTable[c] ELSE c

\* str.lower()
RECURSIVE StrLower(_)
StrLower(s) ==
  IF Len(s) = 0 THEN ""
  ELSE IF Len(s) = 1 THEN ToLowerChar(s)
  ELSE LET h == Len(s) \div 2
       IN StrLower(SubSeq(s, 1, h)) \o StrLower(SubSeq(s, h + 1, Len(s)))

\* str.strip(): the text without its leading and trailing white space
LStripFrom(s) ==
  CHOOSE i \in 1..(Len(s) + 1) :
    /\ (i = Len(s) + 1 \/ Char(s, i) \notin Space)
    /\ \A k \in 1..(i - 1) : Char(s, k) \in Space

RStripTo(s) ==
  CHOOSE j \in 0..Len(s) :
    /\ (j = 0 \/ Char(s, j) \notin Space)
    /\ \A k \in (j + 1)..Len(s) : Char(s, k) \in Space

Strip(s) ==
  LET From(i) == IF i > Len(s) THEN "" ELSE SubSeq(s, i, RStripTo(s))
  IN From(LStripFrom(s))

(***************************************************************************)
(* Regular expressions (Python's re: backtracking, leftmost, greedy).      *)
(* A pattern is a record; Ends(r, s, i, ic) is the sequence of positions   *)
(* at which a match of r that starts at position i of s can end, in the    *)
(* order in which the backtracking matcher tries them (the first one is    *)
(* the match re reports).  ic is re.IGNORECASE.                            *)
(***************************************************************************)
Cls(S) == [t |-> "cls", cs |-> S, neg |-> FALSE]
NCls(S) == [t |-> "cls", cs |-> S, neg |-> TRUE]
AnyCh == NCls({"\n"})
Lit(str) == [t |-> "lit", str |-> str]
Cat(rs) == [t |-> "cat", rs |-> rs]
Alt(rs) == [t |-> "alt", rs |-> rs]
Opt(r) == [t |-> "opt", r |-> r]
\* {min,max} of one character class, greedy; max = -1 is unbounded
Run(S, min, max) == [t |-> "run", cs |-> S, neg |-> FALSE, min |-> min, max |-> max]
NRun(S, min, max) == [t |-> "run", cs |-> S, neg |-> TRUE, min |-> min, max |-> max]
Bol == [t |-> "bol"]
Eol == [t |-> "eol"]
WordB == [t |-> "wb"]
LookAhead(r) == [t |-> "la", r |-> r]
LookBehind(S) == [t |-> "lb", cs |-> S]

ToUpperChar(c) ==
  IF c \in Lower THEN CHOOSE u \in Upper : ToLowerTable[u] = c ELSE c

InCls(c, cs, neg, ic) ==
  neg # (\/ c \in cs
         \/ ic /\ (ToLowerChar(c) \in cs \/ ToUpperChar(c) \in cs))

\* the position after the longest run of class characters that starts at i
RunEnd(s, i, cs, neg, ic) ==
  CHOOSE e \in i..(Len(s) + 1) :
    /\ (e = Len(s) + 1 \/ ~InCls(Char(s, e), cs, neg, ic))
    /\ \A k \in i..(e - 1) : InCls(Char(s, k), cs, neg, ic)

IsWordAt(s, i) == i >= 1 /\ i <= Len(s) /\ Char(s, i) \in WordCh

\* a literal at position i
LitEnds(str, s, i, ic) ==
  IF /\ i + Len(str) - 1 <= Len(s)
     /\ IF ic THEN StrLower(SubSeq(s, i, i + Len(str) - 1)) = StrLower(str)
        ELSE SubSeq(s, i, i + Len(str) - 1) = str
  THEN <<i + Len(str)>> ELSE <<>>

\* a greedy run from i whose longest form ends at full: longest first
RunEnds(i, full, min, max) ==
  LET Upto(e) == IF e - i < min THEN <<>>
                 ELSE [k \in 1..(e - i - min + 1) |-> e - k + 1]
  IN Upto(IF max >= 0 /\ full - i > max THEN i + max ELSE full)

RECURSIVE Ends(_, _, _, _), CatFrom(_, _, _, _, _), FlatEnds(_, _, _, _, _, _),
          AltEnds(_, _, _, _, _)
Ends(r, s, i, ic) ==
  CASE r.t = "cls" ->
         IF i <= Len(s) /\ InCls(Char(s, i), r.cs, r.neg, ic) THEN <<i + 1>> ELSE <<>>
    [] r.t = "lit" -> LitEnds(r.str, s, i, ic)
    [] r.t = "run" -> RunEnds(i, RunEnd(s, i, r.cs, r.neg, ic), r.min, r.max)
    [] r.t = "cat" -> CatFrom(r.rs, 1, s, i, ic)
    [] r.t = "alt" -> AltEnds(r.rs, 1, s, i, ic)
    [] r.t = "opt" -> Ends(r.r, s, i, ic) \o <<i>>
    [] r.t = "bol" -> IF i = 1 THEN <<i>> ELSE <<>>
    [] r.t = "eol" ->
         IF i = Len(s) + 1 \/ (i = Len(s) /\ Char(s, i) = "\n") THEN <<i>> ELSE <<>>
    [] r.t = "wb" -> IF IsWordAt(s, i - 1) # IsWordAt(s, i) THEN <<i>> ELSE <<>>
    [] r.t = "la" -> IF Ends(r.r, s, i, ic) # <<>> THEN <<i>> ELSE <<>>
    [] r.t = "lb" -> IF i > 1 /\ Char(s, i - 1) \in r.cs THEN <<i>> ELSE <<>>

CatFrom(rs, k, s, i, ic) ==
  IF k > Len(rs) THEN <<i>>
  ELSE FlatEnds(rs, k, s, Ends(rs[k], s, i, ic), 1, ic)

FlatEnds(rs, k, s, es, n, ic) ==
  IF n > Len(es) THEN <<>>
  ELSE CatFrom(rs, k + 1, s, es[n], ic) \o FlatEnds(rs, k, s, es, n + 1, ic)

AltEnds(rs, k, s, i, ic) ==
  IF k > Len(rs) THEN <<>>
  ELSE Ends(rs[k], s, i, ic) \o AltEnds(rs, k + 1, s, i, ic)

MatchAt(r, s, i, ic) == Ends(r, s, i, ic) # <<>>

\* re.match(r, s) and re.search(r, s)
ReMatch(r, s, ic) == MatchAt(r, s, 1, ic)
ReSearch(r, s, ic) == \E i \in 1..(Len(s) + 1) : MatchAt(r, s, i, ic)

\* the positions of s at which r matches
Starts(r, s, ic) == {i \in 1..(Len(s) + 1) : MatchAt(r, s, i, ic)}

\* the least element of S that is >= from, or 0
NextIn(S, from) ==
  IF \E i \in S : i >= from
  THEN CHOOSE i \in S : i >= from /\ \A k \in S : k >= from => k >= i
  ELSE 0

\* The first match at position a of the pattern "g1 followed by g2", as
\* <<a, m, b>>: g1 matches [a, m) and g2 matches [m, b); <<>> if none.
\* The backtracking matcher takes the first end of g1 after which g2 matches.
RECURSIVE FirstSplit(_, _, _, _, _, _)
FirstSplit(g2, s, ic, a, es, n) ==
  LET Pick(bs) == IF bs # <<>> THEN <<a, es[n], Head(bs)>>
                  ELSE FirstSplit(g2, s, ic, a, es, n + 1)
  IN IF n > Len(es) THEN <<>> ELSE Pick(Ends(g2, s, es[n], ic))

Match2At(g1, g2, s, ic, a) == FirstSplit(g2, s, ic, a, Ends(g1, s, a, ic), 1)

\* re.finditer(g1 g2, s): the non-overlapping matches <<a, m, b>>, left to right
RECURSIVE Find2From(_, _, _, _, _, _)
Find2From(g1, g2, s, ic, st, from) ==
  LET Found(a, m) ==
        <<m>> \o Find2From(g1, g2, s, ic, st, IF m[3] > a THEN m[3] ELSE a + 1)
      At(a) == IF a = 0 THEN <<>> ELSE Found(a, Match2At(g1, g2, s, ic, a))
  IN At(NextIn(st, from))

FindIter2(g1, g2, s, ic) ==
  Find2From(g1, g2, s, ic, {i \in 1..(Len(s) + 1) : Match2At(g1, g2, s, ic, i) # <<>>}, 1)

\* re.finditer(r, s): the non-overlapping matches <<start, end>>, left to right
RECURSIVE FindFrom(_, _, _, _, _)
FindFrom(r, s, ic, st, from) ==
  LET Found(a, b) == <<(<<a, b>>)>> \o FindFrom(r, s, ic, st, IF b > a THEN b ELSE a + 1)
      At(a) == IF a = 0 THEN <<>> ELSE Found(a, Head(Ends(r, s, a, ic)))
  IN At(NextIn(st, from))

FindIter(r, s, ic) == FindFrom(r, s, ic, Starts(r, s, ic), 1)

\* re.sub(r, repl, s) over the matches ms of r in s; repl is "\1\2" with
\* one-character groups at both ends of the match ("ends") or a fixed text
Replacement(repl, s, m) ==
  IF repl = "ends" THEN Char(s, m[1]) \o Char(s, m[2] - 1) ELSE repl

RECURSIVE SubFrom(_, _, _, _, _)
SubFrom(s, ms, n, from, repl) ==
  IF n > Len(ms) THEN SubSeq(s, from, Len(s))
  ELSE SubSeq(s, from, ms[n][1] - 1) \o Replacement(repl, s, ms[n])
       \o SubFrom(s, ms, n + 1, ms[n][2], repl)

ReSub(r, repl, s) == SubFrom(s, FindIter(r, s, FALSE), 1, 1, repl)

\* str.replace(old, new) for a one-character old
RECURSIVE StrReplace(_, _, _)
StrReplace(s, old, new) ==
  IF Len(s) = 0 THEN ""
  ELSE IF Len(s) = 1 THEN (IF s = old THEN new ELSE s)
  ELSE LET h == Len(s) \div 2
       IN StrReplace(SubSeq(s, 1, h), old, new)
          \o StrReplace(SubSeq(s, h + 1, Len(s)), old, new)

(***************************************************************************)
(* normalize_pdf_text                                                      *)
(***************************************************************************)
\* r'(\w)-\s+(\w)'
HyphenBreak == Cat(<<Cls(WordCh), Lit("-"), Run(Space, 1, -1), Cls(WordCh)>>)

\* r'\s+'
WhiteRun == Run(Space, 1, -1)

ReplaceArtifacts(text) ==
  LET t1 == StrReplace(text, RSQUO, "'")
      t2 == StrReplace(t1, LSQUO, "'")
      t3 == StrReplace(t2, LDQUO, "\"")
      t4 == StrReplace(t3, RDQUO, "\"")
      t5 == StrReplace(t4, ENDASH, "-")
      t6 == StrReplace(t5, EMDASH, "-")
      t7 == StrReplace(t6, NBSP, " ")
  IN StrReplace(t7, BOM, "")

RejoinHyphens(text) == ReSub(HyphenBreak, "ends", text)

normalize_pdf_text(text) ==
  Strip(ReSub(WhiteRun, " ", RejoinHyphens(ReplaceArtifacts(text))))

(***************************************************************************)
(* looks_like_author, extract_author_year_pairs                            *)
(***************************************************************************)
Sp0 == Run(Space, 0, -1)
Sp1 == Run(Space, 1, -1)
\* [A-Z][a-z]+
CapWord == Cat(<<Cls(Upper), Run(Lower, 1, -1)>>)
\* \d{4}
Year4 == Run(Digit, 4, 4)
\* (?:\s+(?:and|&)\s+[A-Z][a-z]+)?
AndAuthor == Opt(Cat(<<Sp1, Alt(<<Lit("and"), Lit("&")>>), Sp1, CapWord>>))
\* (?:\s+et\s+al\.?)?
EtAl == Opt(Cat(<<Sp1, Lit("et"), Sp1, Lit("al"), Opt(Lit("."))>>))

author_patterns ==
  <<CapWord,
    Cat(<<Cls(Upper), Cls({"'"}), Opt(Cls(Upper)), Run(Lower, 1, -1)>>),
    Cat(<<Alt(<<Lit("van"), Lit("von"), Lit("de"), Lit("del"), Lit("la"), Lit("le"),
                Lit("du"), Lit("dos"), Lit("das")>>), Sp1, Cls(Upper)>>),
    Cat(<<Lit("Mc"), CapWord>>),
    Cat(<<Lit("Mac"), CapWord>>),
    Cat(<<CapWord, Lit(","), Sp0, Cls(Upper)>>),
    Cat(<<CapWord, Sp1, Alt(<<Lit("and"), Lit("&")>>), Sp1, CapWord>>),
    Cat(<<CapWord, Sp1, Lit("et"), Sp1, Lit("al")>>)>>

looks_like_author(text) ==
  LET Match(t) ==
        t # "" /\ \E k \in 1..Len(author_patterns) : ReMatch(author_patterns[k], t, FALSE)
  IN Match(Strip(text))

\* r'([A-Z][a-z]+(?:\s+(?:and|&)\s+[A-Z][a-z]+)?(?:\s+et\s+al\.?)?)\s*[\(,]?\s*(\d{4})\)?'
AuthorYearPair ==
  Cat(<<CapWord, AndAuthor, EtAl, Sp0, Opt(Cls({"(", ","})), Sp0, Year4, Opt(Lit(")"))>>)

\* the matches <<start, end>> (1-based) of the author-year pattern
extract_author_year_pairs(text) == FindIter(AuthorYearPair, text, FALSE)

\* r'\(\d{4}\)'
ParenYear == Cat(<<Lit("("), Year4, Lit(")")>>)

(***************************************************************************)
(* split_concatenated_readings                                             *)
(***************************************************************************)
MinSegment == 25
MinSplittable == 40

\* append current, stripped, if it is longer than 25 characters
FlushAnyLength(readings, current) ==
  LET Keep(piece) == IF piece # "" THEN Append(readings, piece) ELSE readings
  IN Keep(Strip(current))

Flush(readings, current) ==
  LET Keep(piece) == IF piece # "" /\ Len(piece) > MinSegment
                     THEN Append(readings, piece) ELSE readings
  IN Keep(Strip(current))

\* Strategy 1.  split_pattern is (sep)(author-year start):
\* r'(\.\s*|\)\s*\.?\s*)' and
\* r'([A-Z][a-z]+(?:\s+(?:and|&)\s+[A-Z][a-z]+)?(?:\s+et\s+al\.?)?\s*[\(,]\s*\d{4})'
SplitSep == Alt(<<Cat(<<Lit("."), Sp0>>), Cat(<<Lit(")"), Sp0, Opt(Lit(".")), Sp0>>)>>)
SplitAuthor == Cat(<<CapWord, AndAuthor, EtAl, Sp0, Cls({"(", ","}), Sp0, Year4>>)

\* re.split(split_pattern, text): text, sep, author, text, sep, author, ..., text
RECURSIVE SplitParts1(_, _, _, _)
SplitParts1(text, ms, n, from) ==
  IF n > Len(ms) THEN <<SubSeq(text, from, Len(text))>>
  ELSE <<SubSeq(text, from, ms[n][1] - 1),
         SubSeq(text, ms[n][1], ms[n][2] - 1),
         SubSeq(text, ms[n][2], ms[n][3] - 1)>>
       \o SplitParts1(text, ms, n + 1, ms[n][3])

\* the loop over parts: i is the 0-based index of parts[i]
RECURSIVE Strategy1Loop(_, _, _, _)
Strategy1Loop(parts, i, current, readings) ==
  IF i >= Len(parts) THEN Flush(readings, current)
  ELSE IF i % 3 = 0 \/ i % 3 = 1
       THEN Strategy1Loop(parts, i + 1, current \o parts[i + 1], readings)
       ELSE Strategy1Loop(parts, i + 1, parts[i + 1], Flush(readings, current))

Strategy1(text) ==
  LET Loop(parts) == IF Len(parts) > 1 THEN Strategy1Loop(parts, 0, "", <<>>) ELSE <<>>
  IN Loop(SplitParts1(text, FindIter2(SplitSep, SplitAuthor, text, FALSE), 1, 1))

\* Strategy 2.
BulletMark == Alt(<<Cat(<<Run(Digit, 1, -1), Cls({".", ")"}), Sp0>>),
                    Cat(<<Cls({"-", BULLET, BLACKCIRCLE, WHITECIRCLE}), Sp0>>)>>)
\* r'(?:^|[.\s])(\d+[\.\)]\s*|[-...]\s*)([A-Z][a-z]+)'
bullet_pattern ==
  Cat(<<Alt(<<Bol, Cls(Space \cup {"."})>>), BulletMark, CapWord>>)
\* r'(?:^|\s)' and r'(\d+[\.\)]\s*|[-...]\s*)(?=[A-Z][a-z]+)'
BulletLead == Alt(<<Bol, Cls(Space)>>)
BulletSplit == Cat(<<BulletMark, LookAhead(CapWord)>>)
\* r'^(\d+[\.\)]|[-...])$'
MarkerOnly ==
  Cat(<<Bol, Alt(<<Cat(<<Run(Digit, 1, -1), Cls({".", ")"})>>),
                   Cls({"-", BULLET, BLACKCIRCLE, WHITECIRCLE})>>), Eol>>)

\* re.split: text, marker, text, marker, ..., text
RECURSIVE SplitParts2(_, _, _, _)
SplitParts2(text, ms, n, from) ==
  IF n > Len(ms) THEN <<SubSeq(text, from, Len(text))>>
  ELSE <<SubSeq(text, from, ms[n][1] - 1), SubSeq(text, ms[n][2], ms[n][3] - 1)>>
       \o SplitParts2(text, ms, n + 1, ms[n][3])

RECURSIVE Strategy2Loop(_, _, _, _)
Strategy2Loop(parts, k, current, readings) ==
  LET Step(part) ==
        IF part = "" THEN Strategy2Loop(parts, k + 1, current, readings)
        ELSE IF ReMatch(MarkerOnly, part, FALSE)
        THEN Strategy2Loop(parts, k + 1, "",
               IF current # "" /\ Len(current) > MinSegment
               THEN Append(readings, current) ELSE readings)
        ELSE Strategy2Loop(parts, k + 1,
               IF current # "" THEN current \o " " \o part ELSE part, readings)
  IN IF k > Len(parts)
     THEN IF current # "" /\ Len(current) > MinSegment THEN Append(readings, current)
          ELSE readings
     ELSE Step(Strip(parts[k]))

Strategy2(text) ==
  IF ReSearch(bullet_pattern, text, FALSE)
  THEN Strategy2Loop(SplitParts2(text, FindIter2(BulletLead, BulletSplit, text, FALSE), 1, 1),
                     1, "", <<>>)
  ELSE <<>>

\* Strategy 3.  text.split(';')
RECURSIVE StrSplit(_, _, _, _)
StrSplit(text, at, n, from) ==
  IF n > Len(at) THEN <<SubSeq(text, from, Len(text))>>
  ELSE <<SubSeq(text, from, at[n][1] - 1)>> \o StrSplit(text, at, n + 1, at[n][2])

SplitSemicolons(text) == StrSplit(text, FindIter(Lit(";"), text, FALSE), 1, 1)

RECURSIVE Strategy3Loop(_, _, _)
Strategy3Loop(parts, k, readings) ==
  LET Step(part) ==
        IF part # "" /\ Len(part) > MinSegment
        THEN IF looks_like_author(part) \/ ReSearch(ParenYear, part, FALSE)
             THEN Strategy3Loop(parts, k + 1, Append(readings, part))
             ELSE IF readings # <<>>
             THEN Strategy3Loop(parts, k + 1,
                    [readings EXCEPT ![Len(readings)] = @ \o "; " \o part])
             ELSE Strategy3Loop(parts, k + 1, Append(readings, part))
        ELSE Strategy3Loop(parts, k + 1, readings)
  IN IF k > Len(parts) THEN readings ELSE Step(Strip(parts[k]))

Strategy3(text) ==
  IF ReSearch(Lit(";"), text, FALSE) THEN Strategy3Loop(SplitSemicolons(text), 1, <<>>)
  ELSE <<>>

\* Strategy 4.  Offsets j, start, last_end are Python's (0-based).
PyChar(text, j) == Char(text, j + 1)
Max2(a, b) == IF a > b THEN a ELSE b
Min2(a, b) == IF a < b THEN a ELSE b

\* for j in range(start - 1, max(last_end, start - 20), -1): a '.' or ';'
\* that ends the text or is followed by a space; 0 if none
PeriodBefore(text, start, last_end) ==
  LET Last(js) == IF js = {} THEN 0 ELSE (CHOOSE j \in js : \A k \in js : k <= j) + 1
  IN Last({j \in (Max2(last_end, start - 20) + 1)..(start - 1) :
             /\ PyChar(text, j) \in {".", ";"}
             /\ (j + 1 >= Len(text) \/ PyChar(text, j + 1) = " ")})

\* for j in range(start - 1, max(last_end, start - 10), -1): a ')' followed by a space
ParenBefore(text, start, last_end) ==
  LET Last(js) == IF js = {} THEN 0 ELSE (CHOOSE j \in js : \A k \in js : k <= j) + 1
  IN Last({j \in (Max2(last_end, start - 10) + 1)..(start - 1) :
             /\ PyChar(text, j) = ")"
             /\ j + 1 < Len(text) /\ PyChar(text, j + 1) = " "})

RECURSIVE Strategy4Loop(_, _, _, _, _)
Strategy4Loop(text, pairs, i, last_end, readings) ==
  LET Keep(piece) == IF piece # "" /\ Len(piece) > MinSegment
                     THEN Append(readings, piece) ELSE readings
      SplitAt(split_point) ==
        IF split_point # 0 /\ split_point > last_end
        THEN Strategy4Loop(text, pairs, i + 1, split_point,
                           Keep(Strip(SubSeq(text, last_end + 1, split_point))))
        ELSE Strategy4Loop(text, pairs, i + 1, last_end, readings)
      Before(start, byPeriod) ==
        SplitAt(IF byPeriod # 0 THEN byPeriod ELSE ParenBefore(text, start, last_end))
      From(start) == Before(start, PeriodBefore(text, start, last_end))
  IN IF i >= Len(pairs) THEN Keep(Strip(SubSeq(text, last_end + 1, Len(text))))
     ELSE IF i = 0 THEN Strategy4Loop(text, pairs, 1, last_end, readings)
     ELSE From(pairs[i + 1][1] - 1)

Strategy4(text) ==
  LET Loop(pairs) == IF Len(pairs) > 1 THEN Strategy4Loop(text, pairs, 0, 0, <<>>) ELSE <<>>
  IN Loop(extract_author_year_pairs(text))

\* the strategy (1..4) whose result is returned, 0 if none yields more than one
SplitStrategy(text) ==
  IF Len(Strategy1(text)) > 1 THEN 1
  ELSE IF Len(Strategy2(text)) > 1 THEN 2
  ELSE IF Len(Strategy3(text)) > 1 THEN 3
  ELSE IF Len(Strategy4(text)) > 1 THEN 4
  ELSE 0

SplitNormalizedKeepsReadings(text) ==
  LET Try4(readings) == readings
      Try3(readings) == IF Len(readings) > 1 THEN readings ELSE Try4(Strategy4(text))
      Try2(readings) == IF Len(readings) > 1 THEN readings ELSE Try3(Strategy3(text))
      Try1(readings) == IF Len(readings) > 1 THEN readings ELSE Try2(Strategy2(text))
  IN Try1(Strategy1(text))

\* each strategy returns its readings if there is more than one; else [text]
SplitNormalized(text) ==
  LET Try4(readings) == IF Len(readings) > 1 THEN readings ELSE <<text>>
      Try3(readings) == IF Len(readings) > 1 THEN readings ELSE Try4(Strategy4(text))
      Try2(readings) == IF Len(readings) > 1 THEN readings ELSE Try3(Strategy3(text))
      Try1(readings) == IF Len(readings) > 1 THEN readings ELSE Try2(Strategy2(text))
  IN Try1(Strategy1(text))

split_concatenated_readings(text0) ==
  LET Split(text) == IF text = "" \/ Len(text) < MinSplittable
                     THEN (IF text # "" THEN <<text>> ELSE <<>>)
                     ELSE SplitNormalized(text)
  IN Split(normalize_pdf_text(text0))

(***************************************************************************)
(* is_incomplete_line, is_continuation_line, should_merge_lines            *)
(*                                                                         *)
(* The answers of the semantic analyzer (spaCy) are inputs: avail is       *)
(* is_available(); complete is is_complete_sentence(text); person tells    *)
(* how the text starts with the first PERSON entity of analyze(text):      *)
(* "none" (no person, or not at the start), "full" (with the whole name    *)
(* but not with its last word), "last" (with its last word).               *)
(***************************************************************************)
StartsWith(s, p) == Len(s) >= Len(p) /\ SubSeq(s, 1, Len(p)) = p
EndsWith(s, e) == Len(s) >= Len(e) /\ SubSeq(s, Len(s) - Len(e) + 1, Len(s)) = e

\* the alternation of the literal words ws
AltLit(ws) == Alt([k \in 1..Len(ws) |-> Lit(ws[k])])

incomplete_endings ==
  <<" in", " in:", " the", " a", " an", " and", " or", " of", " for", " to",
    " by", " from", " with", " on", " at", " as", ",", ":", ";",
    " vol", " vol.", " pp", " pp.", " ed", " ed.", " eds", " eds.",
    " trans", " trans.", " chapter", " ch", " ch.", "&",
    " new", " york", " cambridge", " oxford", " london", " chicago">>

\* r'[.!?)\]\d]$'
TerminalEnd == Cat(<<Cls({".", "!", "?", ")", "]"} \cup Digit), Eol>>)

is_incomplete_line(text0, avail, complete) ==
  LET Incomplete(text, text_lower) ==
     IF text = "" THEN FALSE
     ELSE IF /\ avail
             /\ ~complete
             /\ (\/ looks_like_author(text)
                 \/ ReSearch(ParenYear, text, FALSE)
                 \/ Len(text) > 30)
     THEN TRUE
     ELSE IF \E k \in 1..Len(incomplete_endings) : EndsWith(text_lower, incomplete_endings[k])
     THEN TRUE
     ELSE IF EndsWith(text, "\"") \/ EndsWith(text, "'") \/ EndsWith(text, LDQUO)
     THEN TRUE
     ELSE IF ReSearch(Cat(<<Cls(Lower), Lit("-"), Eol>>), text, FALSE)
     THEN TRUE
     ELSE IF /\ ReSearch(Cat(<<Cls(Space), CapWord, Eol>>), text, FALSE)
             /\ ~EndsWith(text, ".")
             /\ ~ReSearch(Cat(<<Lit("."), Sp0, CapWord, Eol>>), text, FALSE)
     THEN TRUE
     ELSE IF /\ ~ReSearch(TerminalEnd, text, FALSE)
             /\ (\/ looks_like_author(text)
                 \/ ReSearch(ParenYear, text, FALSE)
                 \/ ReSearch(Cls({"\"", LDQUO, RDQUO}), text, FALSE))
     THEN TRUE
     ELSE FALSE
  IN Incomplete(Strip(text0), StrLower(Strip(text0)))

journal_starts ==
  <<"Journal", "Quarterly", "Review", "Studies", "Research", "Bulletin",
    "Proceedings", "American", "British", "International", "Annual",
    "European", "Canadian", "Australian", "African", "Asian", "Latin",
    "Social", "Cultural", "Political", "Economic", "Historical",
    "Inquiry", "Analysis", "Perspectives", "Theory", "Practice",
    "Signs", "Gender", "Feminist", "Women", "Men", "Sexuality">>

publisher_starts ==
  <<"Oxford", "Cambridge", "Routledge", "Sage", "Springer", "Wiley",
    "University", "Press", "Books", "Publishing", "Publishers",
    "Harper", "Random", "Penguin", "Basic", "Free", "Duke", "MIT",
    "Harvard", "Yale", "Princeton", "Stanford", "Chicago", "California",
    "New York", "London", "Boston", "Philadelphia">>

Dashes == {"-", ENDASH}

\* r'^(Vol\.?|Volume|pp?\.?|Issue|No\.?|Chapter|Ch\.?)\s*\d'
VolumeStart ==
  Cat(<<Alt(<<Cat(<<Lit("Vol"), Opt(Lit("."))>>), Lit("Volume"),
              Cat(<<Lit("p"), Opt(Lit("p")), Opt(Lit("."))>>), Lit("Issue"),
              Cat(<<Lit("No"), Opt(Lit("."))>>), Lit("Chapter"),
              Cat(<<Lit("Ch"), Opt(Lit("."))>>)>>), Sp0, Cls(Digit)>>)

\* a bug that reports a publisher prefix without asking the analyzer
ContinuationPrefixFirst(text0, avail, person) ==
  \E k \in 1..Len(publisher_starts) : StartsWith(Strip(text0), publisher_starts[k])

is_continuation_line(text0, avail, person) ==
  LET Continues(text) ==
     IF text = "" THEN FALSE
     ELSE IF avail /\ person # "none" THEN FALSE
     ELSE IF Char(text, 1) \in Lower THEN TRUE
     ELSE IF ReMatch(VolumeStart, text, TRUE) THEN TRUE
     \* r'^\d+\s*[-:\(\)]' (with the en dash), r'^\(\d+\)'
     ELSE IF ReMatch(Cat(<<Run(Digit, 1, -1), Sp0,
                           Cls(Dashes \cup {":", "(", ")"})>>), text, FALSE)
     THEN TRUE
     ELSE IF ReMatch(Cat(<<Lit("("), Run(Digit, 1, -1), Lit(")")>>), text, FALSE) THEN TRUE
     ELSE IF \E k \in 1..Len(journal_starts) : StartsWith(text, journal_starts[k]) THEN TRUE
     ELSE IF \E k \in 1..Len(publisher_starts) : StartsWith(text, publisher_starts[k])
     THEN TRUE
     ELSE IF \/ StartsWith(text, "\"") \/ StartsWith(text, "'")
             \/ StartsWith(text, RDQUO) \/ StartsWith(text, ")")
     THEN TRUE
     \* r'^(ed\.|eds\.|trans\.|translated)'
     ELSE IF ReMatch(AltLit(<<"ed.", "eds.", "trans.", "translated">>), text, TRUE) THEN TRUE
     \* r'^(and|or|in|of|for|the|a|an)\s'
     ELSE IF ReMatch(Cat(<<AltLit(<<"and", "or", "in", "of", "for", "the", "a", "an">>),
                           Cls(Space)>>), text, TRUE)
     THEN TRUE
     \* r'^[\d\s\-:,\(\)\.]+$' (with the en dash), r'^\d+[-]\d+\.?$'
     ELSE IF /\ Len(text) < 40
             /\ \/ ReMatch(Cat(<<Run(Digit \cup Space \cup Dashes
                                     \cup {":", ",", "(", ")", "."}, 1, -1), Eol>>),
                           text, FALSE)
                \/ ReMatch(Cat(<<Run(Digit, 1, -1), Cls(Dashes), Run(Digit, 1, -1),
                                 Opt(Lit(".")), Eol>>), text, FALSE)
     THEN TRUE
     \* r'^[A-Z][a-z]+[,\s]+(?:[A-Z]|and|\(|\d{4})', r'^[A-Z][a-z]+',
     \* r'^[A-Z][a-z]+\s*[\(,]\s*\d{4}'
     ELSE IF /\ ~ReMatch(Cat(<<CapWord, Run(Space \cup {","}, 1, -1),
                               Alt(<<Cls(Upper), Lit("and"), Lit("("), Year4>>)>>),
                         text, FALSE)
             /\ ReMatch(CapWord, text, FALSE)
             /\ ~ReMatch(Cat(<<CapWord, Sp0, Cls({"(", ","}), Sp0, Year4>>), text, FALSE)
     THEN TRUE
     ELSE FALSE
  IN Continues(Strip(text0))

\* the characters after which a citation is closed: '.!?)]' and the double quotes
TerminalChars == {".", "!", "?", ")", "]", RDQUO, "\""}

LastChar(s) == Char(s, Len(s))

\* a bug that merges on the basic check alone, with no look at a new citation
ShouldMergeBasicOnly(prev_text, next_text, avail, nlp) ==
  /\ is_incomplete_line(prev_text, avail, nlp.prevComplete)
  /\ is_continuation_line(next_text, avail, nlp.person)

\* nlp = [person, prevComplete, combComplete]: analyze(next_text),
\* is_complete_sentence(prev_text), is_complete_sentence(prev_text + ' ' + next_text)
should_merge_lines(prev_text, next_text, avail, nlp) ==
  LET Decide(incomplete) ==
     \* r'^[A-Z][a-z]+(?:,\s*[A-Z]\.?)?\s*\(\d{4}\)'
     IF ReMatch(Cat(<<CapWord, Opt(Cat(<<Lit(","), Sp0, Cls(Upper), Opt(Lit("."))>>)),
                      Sp0, ParenYear>>), next_text, FALSE)
     THEN FALSE
     ELSE IF /\ looks_like_author(next_text)
             /\ ReSearch(ParenYear, SubSeq(next_text, 1, Min2(50, Len(next_text))), FALSE)
     THEN FALSE
     ELSE IF /\ avail
             /\ nlp.person = "last"
             /\ ReSearch(ParenYear, SubSeq(next_text, 1, Min2(60, Len(next_text))), FALSE)
     THEN FALSE
     \* r'^[A-Z][a-z]+.*\(\d{4}\)'
     ELSE IF /\ prev_text # "" /\ LastChar(prev_text) \in TerminalChars
             /\ ReMatch(Cat(<<CapWord, NRun({"\n"}, 0, -1), ParenYear>>), next_text, FALSE)
     THEN FALSE
     ELSE IF incomplete /\ is_continuation_line(next_text, avail, nlp.person) THEN TRUE
     \* r'^(Vol|pp?|Issue|\d)'
     ELSE IF /\ incomplete
             /\ ReMatch(Alt(<<Lit("Vol"), Cat(<<Lit("p"), Opt(Lit("p"))>>), Lit("Issue"),
                              Cls(Digit)>>), next_text, TRUE)
     THEN TRUE
     \* r'^[\w\s,]+,?\s*(Vol\.?|pp?\.?|Issue)?\s*\d'
     ELSE IF /\ Len(next_text) < 50
             /\ ReMatch(Cat(<<Run(WordCh \cup Space \cup {","}, 1, -1), Opt(Lit(",")), Sp0,
                              Opt(Alt(<<Cat(<<Lit("Vol"), Opt(Lit("."))>>),
                                        Cat(<<Lit("p"), Opt(Lit("p")), Opt(Lit("."))>>),
                                        Lit("Issue")>>)),
                              Sp0, Cls(Digit)>>), next_text, TRUE)
             /\ incomplete
     THEN TRUE
     ELSE IF avail /\ ~nlp.prevComplete /\ nlp.combComplete THEN TRUE
     ELSE IF /\ avail
             /\ prev_text # "" /\ LastChar(prev_text) \notin TerminalChars
             /\ next_text # "" /\ Char(next_text, 1) \in Lower
     THEN TRUE
     ELSE FALSE
  IN Decide(is_incomplete_line(prev_text, avail, nlp.prevComplete))

(***************************************************************************)
(* is_header, is_week_header                                               *)
(***************************************************************************)
DotStar == NRun({"\n"}, 0, -1)
\* \b(w1|w2|...)\b
Words(ws) == Cat(<<WordB, AltLit(ws), WordB>>)

\* re.sub(r'^[\d\.\)\-*]+\s*', '', text) (with the bullet)
StripLead(text) ==
  LET After(es) == IF es = <<>> THEN text ELSE SubSeq(text, Head(es), Len(text))
  IN After(Ends(Cat(<<Run(Digit \cup {".", ")", "-", BULLET, "*"}, 1, -1), Sp0>>),
                text, 1, FALSE))

\* str.isupper(): a cased character, and no lower-case one
IsUpperStr(s) ==
  /\ \E i \in 1..Len(s) : Char(s, i) \in Upper
  /\ \A i \in 1..Len(s) : Char(s, i) \notin Lower

DayNames == <<"monday", "tuesday", "wednesday", "thursday", "friday", "saturday", "sunday">>

MonthNames ==
  <<"january", "february", "march", "april", "may", "june", "july", "august",
    "september", "october", "november", "december",
    "jan", "feb", "mar", "apr", "may", "jun", "jul", "aug", "sep", "sept", "oct",
    "nov", "dec">>

header_keywords ==
  <<"introduction", "overview", "conclusion", "review", "midterm", "final",
    "exam", "break", "holiday", "no class", "thanksgiving", "spring break",
    "readings", "required readings", "recommended readings", "optional readings",
    "assignments", "topics", "schedule", "theme", "topic",
    "course policies", "policies", "grading", "grade breakdown",
    "office hours", "contact", "instructor", "professor", "ta ",
    "teaching assistant", "course objectives", "learning objectives",
    "course description", "description", "prerequisites", "materials",
    "required materials", "textbooks", "books", "resources">>

Terms == <<"spring", "fall", "summer", "winter">>

is_header(text) ==
  LET Header(text_lower, text_clean) ==
     \* r'^[A-Z]{2,5}\s*\d{2,4}[:\s\-]'
     \/ ReMatch(Cat(<<Run(Upper, 2, 5), Sp0, Run(Digit, 2, 4),
                      Cls(Space \cup {":", "-"})>>), Strip(text), FALSE)
     \* r'\[(spring|fall|summer|winter)\s+\d{4}\]' and the same in parentheses
     \/ ReSearch(Cat(<<Lit("["), AltLit(Terms), Sp1, Year4, Lit("]")>>), text_lower, FALSE)
     \/ ReSearch(Cat(<<Lit("("), AltLit(Terms), Sp1, Year4, Lit(")")>>), text_lower, FALSE)
     \* r'^week\s*\d+'
     \/ ReMatch(Cat(<<Lit("week"), Sp0, Run(Digit, 1, -1)>>), text_clean, FALSE)
     \* r'^(session|class|...|day)\s*\d+'
     \/ ReMatch(Cat(<<AltLit(<<"session", "class", "module", "unit", "part", "section",
                               "lecture", "seminar", "meeting", "day">>),
                      Sp0, Run(Digit, 1, -1)>>), text_clean, FALSE)
     \* rf'^({months}|{months_abbr})\.?\s+\d{{1,2}}'
     \/ ReMatch(Cat(<<AltLit(MonthNames), Opt(Lit(".")), Sp1, Run(Digit, 1, 2)>>),
                text_clean, FALSE)
     \* r'^\d{1,2}/\d{1,2}(/\d{2,4})?$'
     \/ ReMatch(Cat(<<Run(Digit, 1, 2), Lit("/"), Run(Digit, 1, 2),
                      Opt(Cat(<<Lit("/"), Run(Digit, 2, 4)>>)), Eol>>), text_clean, FALSE)
     \* r'^(monday|...|sunday)'
     \/ ReMatch(AltLit(DayNames), text_clean, FALSE)
     \/ \E k \in 1..Len(header_keywords) :
          \/ text_clean = header_keywords[k]
          \/ StartsWith(text_clean, header_keywords[k] \o ":")
          \/ StartsWith(text_clean, header_keywords[k] \o " -")
     \/ Len(text) < 60 /\ IsUpperStr(StrReplace(text, " ", "")) /\ Len(text) > 3
     \/ Len(text) < 40 /\ EndsWith(text, ":")
     \* r'^[IVX]+\.\s'
     \/ ReMatch(Cat(<<Run({"I", "V", "X"}, 1, -1), Lit("."), Cls(Space)>>), text, FALSE)
  IN Header(Strip(StrLower(text)), StripLead(Strip(StrLower(text))))

\* int(): the value of a run of decimal digits
DigitValue(c) ==
  CASE c = "0" -> 0 [] c = "1" -> 1 [] c = "2" -> 2 [] c = "3" -> 3 [] c = "4" -> 4
    [] c = "5" -> 5 [] c = "6" -> 6 [] c = "7" -> 7 [] c = "8" -> 8 [] c = "9" -> 9

RECURSIVE ToInt(_)
ToInt(ds) ==
  IF ds = "" THEN 0
  ELSE 10 * ToInt(SubSeq(ds, 1, Len(ds) - 1)) + DigitValue(LastChar(ds))

None == -1

\* re.match(r'^\s*week\s+(\d+)', text, re.I): the week number, or None
is_week_header(text) ==
  LET Number(m) == IF m = <<>> THEN None ELSE ToInt(SubSeq(text, m[2], m[3] - 1))
  IN Number(Match2At(Cat(<<Sp0, Lit("week"), Sp1>>), Run(Digit, 1, -1), text, TRUE, 1))

(***************************************************************************)
(* extract_url, is_course_description, get_instruction_score,              *)
(* is_instruction, get_reading_score                                       *)
(***************************************************************************)
\* the characters a URL stops at: white space, double and single quote, ')', ']'
UrlStop == Space \cup {"\"", "'", ")", "]"}
UrlTail == NRun(UrlStop, 1, -1)
UrlLast == NCls(UrlStop \cup {".", ",", ";", ":", "!", "?"})

\* a URL is found (the return value is not None)
extract_url(text) ==
  \/ ReSearch(Cat(<<Lit("http"), Opt(Lit("s")), Lit("://"), UrlTail, UrlLast>>), text, FALSE)
  \/ ReSearch(Cat(<<Lit("www."), UrlTail, UrlLast>>), text, FALSE)

\* the sum of the weights of the patterns of ps (records [re, w]) found in s
RECURSIVE ScoreOf(_, _, _, _)
ScoreOf(ps, k, s, ic) ==
  IF k > Len(ps) THEN 0
  ELSE (IF ReSearch(ps[k].re, s, ic) THEN ps[k].w ELSE 0) + ScoreOf(ps, k + 1, s, ic)

P(re, w) == [re |-> re, w |-> w]

description_patterns ==
  <<Words(<<"this course", "the course", "this class", "the class", "this seminar",
            "students will", "students learn", "students are", "we will", "we explore",
            "we examine", "you will", "you learn", "introduces students", "designed to",
            "purpose of this", "goal of this", "aims to", "seeks to", "focuses on">>),
    Cat(<<Words(<<"explores">>), DotStar, Words(<<"through">>)>>),
    Cat(<<Words(<<"examines">>), DotStar, Words(<<"through">>)>>),
    Cat(<<Words(<<"addresses">>), DotStar, WordB, Lit("question"), Opt(Lit("s")), WordB>>),
    Cat(<<Words(<<"what is">>), DotStar, Lit("?"), Sp0, Lit("what"), WordB>>),
    Cat(<<Words(<<"what are">>), DotStar, Lit("?"), Sp0>>),
    Cat(<<Words(<<"how do">>), DotStar, Lit("?")>>),
    Cat(<<Words(<<"why do">>), DotStar, Lit("?")>>)>>

is_course_description(text) ==
  LET Describes(text_lower) ==
        \E k \in 1..Len(description_patterns) :
           ReSearch(description_patterns[k], text_lower, FALSE)
  IN Describes(Strip(StrLower(text)))

TimeOfDay == Cat(<<Run(Digit, 1, 2), Lit(":"), Run(Digit, 2, 2)>>)

strong_starters ==
  <<P(Cat(<<Bol, AltLit(<<"read", "write", "submit", "complete", "prepare", "review",
                          "discuss", "bring", "post", "upload", "email", "send">>),
            Cls(Space)>>), 3),
    P(Cat(<<Bol, AltLit(<<"please", "note:", "note that", "you should", "you will",
                          "you must">>), WordB>>), 3),
    P(Cat(<<Bol, AltLit(<<"students will", "students should", "students must">>),
            WordB>>), 3),
    P(Cat(<<Bol, AltLit(<<"be prepared", "come prepared", "make sure", "don't forget",
                          "remember to">>), WordB>>), 3),
    P(Cat(<<Bol, AltLit(<<"assignment", "homework", "essay", "paper due", "exam", "quiz",
                          "midterm", "final">>), WordB>>), 3),
    P(Cat(<<Bol, AltLit(<<"no class", "class canceled", "class cancelled">>), WordB>>), 3)>>

instr_medium_patterns ==
  <<P(Cat(<<WordB, Lit("office"), Sp0, Lit("hour"), Opt(Lit("s")), WordB>>), 2),
    P(Cat(<<TimeOfDay, Sp0, Run({"-", ENDASH, "t", "o"}, 1, -1), Sp0, TimeOfDay>>), 2),
    P(Cat(<<WordB, AltLit(DayNames), Opt(Lit("s")), Sp1, Cls(Digit)>>), 2),
    P(Cat(<<WordB, AltLit(<<"due", "submit", "by", "before">>), Sp0,
            Opt(AltLit(<<":", "on", "by">>)), Sp0,
            Alt(<<AltLit(<<"jan", "feb", "mar", "apr", "may", "jun", "jul", "aug", "sep",
                           "oct", "nov", "dec">>),
                  Cat(<<Run(Digit, 1, 2), Lit("/")>>)>>)>>), 2),
    P(Cat(<<WordB, Run(Digit, 1, -1), Sp0,
            Alt(<<Lit("%"), Lit("percent"), Cat(<<Lit("point"), Opt(Lit("s"))>>)>>),
            WordB>>), 2),
    P(Words(<<"grade", "grading", "evaluation", "attendance", "participation">>), 2),
    P(Words(<<"on canvas", "on blackboard", "on moodle", "on courseworks",
              "course reserve">>), 2),
    P(Words(<<"in person", "in-person", "zoom", "virtual", "hybrid">>), 2),
    P(Words(<<"film screening", "movie:", "watch:", "view:", "listen to">>), 2),
    P(Words(<<"response paper", "reflection", "blog post", "discussion post",
              "group project", "presentation">>), 2)>>

instr_weak_patterns ==
  <<P(Words(<<"tba", "tbd", "to be announced", "to be determined">>), 1),
    P(Words(<<"see ", "refer to", "check ", "visit ">>), 1),
    P(Words(<<"available on", "available at", "posted on">>), 1),
    P(Words(<<"professor ", "prof.", "prof ", "dr.", "dr ", "instructor:">>), 1),
    P(Words(<<"classroom", "room ", "location:", "class time", "meeting time">>), 1),
    P(Words(<<"this week", "this class", "today we", "we will", "we are">>), 1),
    P(Words(<<"in class", "for class", "before class", "after class">>), 1)>>

\* r'pp?\.?\s*\d+[-]?\d*' (with the en dash)
PageNumbers ==
  Cat(<<Lit("p"), Opt(Lit("p")), Opt(Lit(".")), Sp0, Run(Digit, 1, -1),
        Opt(Cls(Dashes)), Run(Digit, 0, -1)>>)

\* r'^[A-Z][a-z]+(?:\s+(?:and|&)\s+[A-Z][a-z]+)?\s*[\(,]\s*\d{4}'
AuthorYearStart == Cat(<<Bol, CapWord, AndAuthor, Sp0, Cls({"(", ","}), Sp0, Year4>>)

instr_negative_patterns ==
  <<P(AuthorYearStart, -3),
    P(Cat(<<WordB, PageNumbers>>), -2),
    P(Cat(<<WordB, AltLit(<<"journal", "quarterly", "review", "studies", "proceedings">>),
            Sp1, Lit("of"), WordB>>), -2),
    P(Words(<<"university press", "oxford", "cambridge", "routledge", "sage",
              "springer">>), -2),
    P(Alt(<<Words(<<"isbn", "doi">>), Lit("doi.org")>>), -2)>>

\* sem_adjust is the sum of the analyzer's contributions (0 when it is unavailable)
get_instruction_score(text0, sem_adjust) ==
  LET Score(text, text_lower) ==
        sem_adjust
        + (IF is_course_description(text) THEN 4 ELSE 0)
        + ScoreOf(strong_starters, 1, text_lower, FALSE)
        + ScoreOf(instr_medium_patterns, 1, text_lower, FALSE)
        + ScoreOf(instr_weak_patterns, 1, text_lower, FALSE)
        + ScoreOf(instr_negative_patterns, 1, text_lower, FALSE)
  IN Score(Strip(text0), StrLower(StripLead(Strip(text0))))

InstructionThreshold == 3
ReadingThreshold == 3

is_instruction(text0, sem_adjust) ==
  LET Instruction(text) ==
        IF Len(text) < 15 THEN FALSE
        ELSE IF is_header(text) THEN FALSE
        ELSE get_instruction_score(text, sem_adjust) >= InstructionThreshold
  IN Instruction(Strip(text0))

Quotes == {"\"", "'", LDQUO, RDQUO}

reading_strong_patterns ==
  <<P(AuthorYearStart, 3),
    \* r'^[A-Z][a-z]+\s+et\s+al\.?\s*[\(,]?\s*\d{4}'
    P(Cat(<<Bol, CapWord, Sp1, Lit("et"), Sp1, Lit("al"), Opt(Lit(".")), Sp0,
            Opt(Cls({"(", ","})), Sp0, Year4>>), 3),
    \* r'^[A-Z][a-z]+,\s*[A-Z][a-z\.]+\s*[\(,]\s*\d{4}'
    P(Cat(<<Bol, CapWord, Lit(","), Sp0, Cls(Upper), Run(Lower \cup {"."}, 1, -1), Sp0,
            Cls({"(", ","}), Sp0, Year4>>), 3),
    \* a quoted title of 20 characters or more
    P(Cat(<<Cls({"\"", LDQUO}), NRun({"\"", RDQUO}, 20, -1), Cls({"\"", RDQUO})>>), 3)>>

reading_medium_patterns ==
  <<P(ParenYear, 1),
    \* r',\s*\d{4}[,.\s$]'
    P(Cat(<<Lit(","), Sp0, Year4, Cls(Space \cup {",", ".", "$"})>>), 1),
    P(PageNumbers, 1),
    P(Cat(<<Lit("vol"), Opt(Lit(".")), Sp0, Run(Digit, 1, -1)>>), 1),
    P(Cat(<<Lit("no"), Opt(Lit(".")), Sp0, Run(Digit, 1, -1)>>), 1),
    P(Cat(<<WordB, Lit("ch"), Opt(Lit("apter")), Opt(Lit(".")), Sp0, Run(Digit, 1, -1)>>), 1),
    P(Cat(<<Cls(Quotes), NRun({"\n"}, 15, -1), Cls(Quotes)>>), 1),
    \* r'\b[Ee]d(?:s|ited)?\.?\s*(?:by)?\s*[A-Z]'
    P(Cat(<<WordB, Cls({"E", "e"}), Lit("d"), Opt(Alt(<<Lit("s"), Lit("ited")>>)),
            Opt(Lit(".")), Sp0, Opt(Lit("by")), Sp0, Cls(Upper)>>), 1),
    P(Cat(<<WordB, Cls({"T", "t"}), Lit("rans"), Opt(Lit("lated")),
            Opt(Lit(".")), Sp0, Opt(Lit("by")), Sp0, Cls(Upper)>>), 1),
    P(Cat(<<Cls({"U", "u"}), Lit("niversity"), Sp1, Cls({"P", "p"}), Lit("ress")>>), 1),
    P(Cat(<<Cls({"J", "j"}), Lit("ournal"), Sp1, Lit("of"), Sp1, Cls(Upper)>>), 1),
    P(Cat(<<WordB, AltLit(<<"Quarterly", "Review", "Studies", "Bulletin", "Proceedings">>),
            Sp1, Opt(Cat(<<Lit("of"), Sp1>>)), Cls(Upper)>>), 1),
    P(Words(<<"Oxford", "Cambridge", "Routledge", "Sage", "Springer", "Wiley", "Penguin",
              "Harvard", "Yale", "Princeton">>), 1),
    P(Alt(<<Words(<<"ISBN", "DOI">>), Lit("doi.org"),
            Cat(<<Lit("doi:"), Sp0, Lit("10.")>>)>>), 1),
    \* r'\(\d+\):\s*\d+[-]?\d*'
    P(Cat(<<Lit("("), Run(Digit, 1, -1), Lit("):"), Sp0, Run(Digit, 1, -1),
            Opt(Cls(Dashes)), Run(Digit, 0, -1)>>), 1),
    P(Cat(<<WordB, Lit("In:"), Sp1, CapWord>>), 1),
    P(Alt(<<Cat(<<WordB, Lit("ed."), Sp1, Lit("by"), Sp1, Cls(Upper)>>),
            Cat(<<WordB, Lit("edited"), Sp1, Lit("by"), Sp1, Cls(Upper)>>)>>), 1),
    P(Alt(<<Cat(<<Lit("excerpt"), Opt(Lit("s")), Sp1, Lit("from")>>),
            Cat(<<Lit("selection"), Opt(Lit("s")), Sp1, Lit("from")>>)>>), 1)>>

reading_negative_patterns ==
  <<P(Cat(<<Bol, Alt(<<Cat(<<Lit("http"), Opt(Lit("s")), Lit("://")>>), Lit("www.")>>),
            NRun(Space, 1, -1), Eol>>), -2),
    P(Cat(<<Bol, Run(Digit, 1, -1), Sp0,
            Alt(<<Lit("%"), Lit("percent"), Cat(<<Lit("point"), Opt(Lit("s"))>>)>>)>>), -2),
    P(Cat(<<Bol, AltLit(<<"Monday", "Tuesday", "Wednesday", "Thursday", "Friday",
                          "Saturday", "Sunday">>), WordB>>), -2),
    P(Cat(<<Bol, Run(Digit, 1, 2), Cls({":", "/"}), Run(Digit, 2, 2)>>), -2),
    P(Words(<<"this course">>), -3),
    P(Words(<<"the course">>), -3),
    P(Words(<<"this class">>), -3),
    P(Words(<<"students will">>), -3),
    P(Words(<<"students learn">>), -3),
    P(Words(<<"we will">>), -2),
    P(Words(<<"office hours">>), -3),
    P(Cat(<<TimeOfDay, Sp0, Cls(Dashes), Sp0, TimeOfDay>>), -2),
    P(Cat(<<Words(<<"what is">>), DotStar, Lit("?")>>), -2),
    P(Cat(<<Words(<<"how do">>), DotStar, Lit("?")>>), -2),
    P(Words(<<"in person">>), -2)>>

\* sem_score is the analyzer's score (0 when it is unavailable); sem_person
\* tells that one of its reasons names a person
get_reading_score(text0, sem_score, sem_person) ==
  LET Score(text_clean) ==
        sem_score
        + ScoreOf(reading_strong_patterns, 1, text_clean, TRUE)
        + ScoreOf(reading_medium_patterns, 1, text_clean, TRUE)
        + (IF ~sem_person /\ looks_like_author(text_clean) THEN 2 ELSE 0)
        + (IF Len(text_clean) > 80 THEN 1 ELSE 0)
        + ScoreOf(reading_negative_patterns, 1, text_clean, TRUE)
  IN Score(StripLead(Strip(text0)))

(***************************************************************************)
(* clean_syllabus: collect the raw lines of the document, merge the        *)
(* fragments, classify every merged unit.  The document is a sequence of   *)
(* text runs [content, startIndex, endIndex] (tables are not modelled).    *)
(***************************************************************************)
EmptyStats ==
  [headers |-> <<>>, readings |-> <<>>, instructions |-> <<>>, uncertain |-> <<>>,
   too_short |-> <<>>, urls |-> <<>>, split_readings |-> <<>>, merged_lines |-> 0]

\* the analyzer before the first call of get_semantic_analyzer, without the
\* library: SPACY_AVAILABLE (spacy), SemanticAnalyzer._instance (instance),
\* the model held by SemanticAnalyzer._nlp (nlp, "none" for None),
\* _semantic_analyzer is not None (global); loads counts the calls of
\* _load_model, downloads the runs of the download, calls the calls of
\* get_semantic_analyzer, and raised tells that an exception has reached a
\* caller
NoAnalyzer ==
  an = [spacy |-> FALSE, instance |-> FALSE, nlp |-> "none", global |-> FALSE,
        loads |-> 0, downloads |-> 0, calls |-> 0, raised |-> FALSE]

\* no run of clean_syllabus beside the one of the document variables
NoRuns ==
  /\ runs = <<>>
  /\ counters = <<>>

\* the state of mergeIn and mergeOut when should_merge_lines is not under test
NoMergeCall ==
  /\ mergeIn = [prev |-> "", next |-> "", avail |-> FALSE,
                nlp |-> [person |-> "none", prevComplete |-> FALSE, combComplete |-> FALSE]]
  /\ mergeOut = <<>>

\* no call of a single function under test: callIn holds the text and the
\* answers of the analyzer about it (whether it is available, whether the text
\* is a complete sentence, whether the text starts with the first person it
\* names or with that name's last word, and what it adds to the instruction
\* score), callOut the result
NoCall ==
  /\ callIn = [text |-> "", avail |-> FALSE, complete |-> FALSE, person |-> "none",
                adjust |-> 0]
  /\ callOut = <<>>

\* download_readings not running, no progress file: the progress file (file,
\* empty when there is none, else one record of doc_id and done), the
\* document and the done set of the run (doc_id, done), the position of the
\* loop in reversed(lines) (pos, 0 outside a run), the documents of the runs
\* started and the resets made, the readings that carry a link (links, pairs of document and
\* start), the counters the run returns, and the record of what was
\* processed (log)
NoDownload ==
  dl = [file |-> <<>>, doc_id |-> "", done |-> {}, pos |-> 0, started |-> <<>>,
        resets |-> 0,
        links |-> {},
        counts |-> [found |-> 0, failed |-> 0, web_links |-> 0, matched |-> 0],
        log |-> <<>>]

\* the state of the document variables when no document is being processed
NoDocument ==
  /\ available = FALSE
  /\ doc = <<>>
  /\ lines = <<>>
  /\ merged = <<>>
  /\ pending = <<>>
  /\ idx = 0
  /\ stack = <<>>
  /\ stats = EmptyStats
  /\ current_week = 0
  /\ log = <<>>

RECURSIVE collect_raw_lines(_, _)
collect_raw_lines(elements, k) ==
  LET Line(text) ==
        IF text = "" THEN collect_raw_lines(elements, k + 1)
        ELSE <<[text |-> normalize_pdf_text(text),
                start |-> elements[k].startIndex,
                end |-> elements[k].endIndex]>>
             \o collect_raw_lines(elements, k + 1)
  IN IF k > Len(elements) THEN <<>> ELSE Line(Strip(elements[k].content))

PreviewLen == 80

\* full_text[:80] + ('...' if len(full_text) > 80 else '')
Preview(full_text) ==
  IF Len(full_text) > PreviewLen THEN SubSeq(full_text, 1, PreviewLen) \o "..."
  ELSE full_text

\* current = item.copy(); current['full_text'] = text
NewUnit(item, text) ==
  [text |-> item.text, start |-> item.start, end |-> item.end, full_text |-> text]

\* a bug that keeps only the text of the last line of a merged unit
MergedUnitLastLine(unit, item, text) ==
  [unit EXCEPT !.full_text = text,
               !.text = Preview(text),
               !.end = item.end]

\* a bug that leaves the end of the unit where its first line ends
MergedUnitEndKept(unit, item, text) ==
  [unit EXCEPT !.full_text = @ \o " " \o text,
               !.text = Preview(unit.full_text \o " " \o text)]

\* the merge branch of merge_fragmented_lines
MergedUnit(unit, item, text) ==
  [unit EXCEPT !.full_text = @ \o " " \o text,
               !.text = Preview(unit.full_text \o " " \o text),
               !.end = item.end]

\* the answers of the analyzer about a pair of lines
NlpAnswers ==
  IF available
  THEN [person : {"none", "full"}, prevComplete : BOOLEAN, combComplete : BOOLEAN]
  ELSE {[person |-> "none", prevComplete |-> FALSE, combComplete |-> FALSE]}

\* the answers of the analyzer about a text: its score of the text without
\* leading markers, whether a reason names a person, its contribution to the
\* instruction score, and its score of the whole text
NoSemantics == [score |-> 0, person |-> FALSE, adjust |-> 0, tscore |-> 0]

\* a bug that asks the analyzer whether or not it is available
SemanticAnswersUnchecked ==
  {NoSemantics,
   [score |-> 6, person |-> TRUE, adjust |-> -3, tscore |-> 6],
   [score |-> -4, person |-> FALSE, adjust |-> 4, tscore |-> -4]}

SemanticAnswers ==
  IF available
  THEN {NoSemantics,
        [score |-> 6, person |-> TRUE, adjust |-> -3, tscore |-> 6],
        [score |-> -4, person |-> FALSE, adjust |-> 4, tscore |-> -4]}
  ELSE {NoSemantics}

\* (classification, confidence in hundredths) for the analyzer's score
classify_text_type(text, score) ==
  IF Len(Strip(text)) < 20 THEN <<"unknown", 90>>
  ELSE IF score >= 6 THEN <<"reading", Min2(95, 70 + (score - 6) * 5)>>
  ELSE IF score <= -4 THEN <<"instruction", Min2(95, 70 + (-(score + 4)) * 5)>>
  ELSE IF score >= 3 THEN <<"reading", 60>>
  ELSE IF score <= -2 THEN <<"instruction", 60>>
  ELSE <<"unknown", 30>>

TooShort == 20

\* the rest of the if/elif chain of classify_single_text, after the instruction check
ScoreBranch(score, segments, semantic) ==
  IF score >= ReadingThreshold THEN "reading"
  ELSE IF score >= 1
  THEN IF Len(segments) > 1 THEN "split"
       ELSE IF semantic[1] = "reading" /\ semantic[2] >= 60 THEN "semantic_reading"
       ELSE IF semantic[1] = "instruction" /\ semantic[2] >= 60 THEN "semantic_instruction"
       ELSE "maybe_reading"
  ELSE IF Len(segments) > 1 THEN "split"
       ELSE IF semantic[1] = "reading" /\ semantic[2] >= 70 THEN "semantic_reading"
       ELSE IF semantic[1] = "instruction" /\ semantic[2] >= 50 THEN "semantic_instruction"
       ELSE "unknown"

\* a bug that looks for a header before it looks at the length
BranchHeaderFirst(text, score, instr, segments, semantic) ==
  IF is_header(text) THEN "header"
  ELSE IF Len(text) < TooShort THEN "too_short"
  ELSE IF instr THEN "instruction"
  ELSE ScoreBranch(score, segments, semantic)

\* a bug that looks at the reading score before it looks for a header
BranchReadingFirst(text, score, instr, segments, semantic) ==
  IF Len(text) < TooShort THEN "too_short"
  ELSE IF score >= ReadingThreshold THEN "reading"
  ELSE IF is_header(text) THEN "header"
  ELSE IF instr THEN "instruction"
  ELSE ScoreBranch(score, segments, semantic)

\* a bug that looks at the reading score before it looks for an instruction
BranchScoreFirst(text, score, instr, segments, semantic) ==
  IF Len(text) < TooShort THEN "too_short"
  ELSE IF is_header(text) THEN "header"
  ELSE IF score >= ReadingThreshold THEN "reading"
  ELSE IF instr THEN "instruction"
  ELSE ScoreBranch(score, segments, semantic)

\* the if/elif chain of classify_single_text: the branch taken (instr is
\* is_instruction(text))
Branch(text, score, instr, segments, semantic) ==
  IF Len(text) < TooShort THEN "too_short"
  ELSE IF is_header(text) THEN "header"
  ELSE IF instr THEN "instruction"
  ELSE ScoreBranch(score, segments, semantic)

\* the list of stats a branch appends the item to
ListOf(branch) ==
  CASE branch = "too_short" -> "too_short"
    [] branch = "header" -> "headers"
    [] branch \in {"instruction", "semantic_instruction"} -> "instructions"
    [] branch \in {"reading", "semantic_reading"} -> "readings"
    [] branch \in {"maybe_reading", "unknown"} -> "uncertain"
    [] OTHER -> "none"

\* a bug that classifies the text that was split once more for every segment
SplitCallsWholeText(split_texts, call) ==
  [k \in 1..Len(split_texts) |->
     [text |-> call.text, start |-> call.start, end |-> call.end,
      is_split |-> TRUE, depth |-> call.depth + 1, parent |-> call.text]]

\* a bug that hands the flag of the text that was split on to its segments
SplitCallsFlagKept(split_texts, call) ==
  [k \in 1..Len(split_texts) |->
     [text |-> Strip(split_texts[k]), start |-> call.start, end |-> call.end,
      is_split |-> call.is_split, depth |-> call.depth + 1, parent |-> call.text]]

\* a bug that gives every segment a span of its own inside the unit
SplitCallsOwnSpan(split_texts, call) ==
  [k \in 1..Len(split_texts) |->
     [text |-> Strip(split_texts[k]), start |-> call.start + k - 1, end |-> call.start + k,
      is_split |-> TRUE, depth |-> call.depth + 1, parent |-> call.text]]

\* the calls classify_single_text(split_text.strip(), start, end, is_split=True);
\* depth and parent (the text that was split) are kept for the record
SplitCalls(split_texts, call) ==
  [k \in 1..Len(split_texts) |->
     [text |-> Strip(split_texts[k]), start |-> call.start, end |-> call.end,
      is_split |-> TRUE, depth |-> call.depth + 1, parent |-> call.text]]

\* r'(?:^|[.;]\s+)([A-Z][a-z]+)'
AuthorLike == Cat(<<Alt(<<Bol, Cat(<<Cls({".", ";"}), Sp1>>)>>), CapWord>>)

LongLine == 60

\* classify_line tries to split the unit before classifying it
PreSplit(text, split_texts) ==
  /\ Len(text) > LongLine
  /\ \/ Len(extract_author_year_pairs(text)) > 1
     \/ Len(FindIter(AuthorLike, text, FALSE)) > 2
  /\ Len(split_texts) > 1

\* the call classify_single_text(text, start, end) of classify_line
FirstCall(item) ==
  [text |-> item.full_text, start |-> item.start, end |-> item.end,
   is_split |-> FALSE, depth |-> 0, parent |-> ""]

\* the calls of classify_single_text that classify_line makes for a unit
LineCalls(item, split_texts) ==
  IF PreSplit(item.full_text, split_texts)
  THEN SplitCalls(split_texts, FirstCall(item))
  ELSE <<FirstCall(item)>>

\* the item classify_single_text builds
ItemOf(call, week, score, instr_score, has_url, branch) ==
  [full_text |-> call.text, start |-> call.start, end |-> call.end,
   week |-> week, was_split |-> call.is_split,
   score |-> score, instr_score |-> instr_score,
   has_url |-> has_url, classification |-> branch]

\* a bug that files the item of a text under uncertain before it is split
RecordedBeforeSplit(st, item, branch) ==
  LET WithItem(s) == IF branch = "split" THEN [s EXCEPT !.uncertain = Append(@, item)]
                     ELSE [s EXCEPT ![ListOf(branch)] = Append(@, item)]
  IN WithItem(IF item.has_url THEN [st EXCEPT !.urls = Append(@, item)] ELSE st)

\* the lists of stats after classify_single_text has appended the item
Recorded(st, item, branch) ==
  LET WithSplit(s) == IF branch = "reading" /\ item.was_split
                      THEN [s EXCEPT !.split_readings = Append(@, item)] ELSE s
      WithItem(s) == IF branch = "split" THEN s
                     ELSE WithSplit([s EXCEPT ![ListOf(branch)] = Append(@, item)])
  IN WithItem(IF item.has_url THEN [st EXCEPT !.urls = Append(@, item)] ELSE st)

\* a bug that takes the week number of any text, header or not
NewWeekAnyBranch(branch, week, cur) ==
  IF week # None /\ week # 0 THEN week ELSE cur

\* if week: current_week[0] = week, in the header branch
NewWeek(branch, week, cur) ==
  IF branch = "header" /\ week # None /\ week # 0 THEN week ELSE cur

\* what the analyzer tells about the type of the text
SemanticType(text, sem) ==
  IF available THEN classify_text_type(text, sem.tscore) ELSE <<"unknown", 0>>

(***************************************************************************)
(* The documents: up to MaxFrags text runs of DocPieces, and the           *)
(* one-run documents of SinglePieces.                                      *)
(***************************************************************************)
MaxFrags == 3
MaxNlpFrags == 2
MaxDepth == 3

Reading == "Smith, J. (2020). Gender and Power. Oxford University Press."

DocPieces ==
  {"Week 3: Feminist theory.", "Week 0: Course overview.", Reading, "Week 5",
   BOM, "Short txt"}

\* 29 clauses and a citation, separated by semicolons without spaces
RECURSIVE Clauses(_)
Clauses(n) == IF n = 0 THEN "" ELSE "remarksthatgoonforawhilexx;" \o Clauses(n - 1)

ManyClauses == Clauses(29) \o "Park (2020) wrote a long t"

\* two short numbered citations in one text
NumberedPair == "1. Smith (2020) Title A. 2. Jones (2019) Title B."

SinglePieces ==
  {"Please read Chapter 3 before Monday's class and submit a 1-page response.",
   "Please read Smith (2020) before class and submit a response.",
   NumberedPair,
   "1. Kim wrote a rather long title about it; Park wrote another long title about that 2. Roe wrote a rather long title about it",
   "Week 4: Smith (2020) Gender and power in theory. Jones (2019) Another long title of work.",
   "Smith (2020) Gender and power:",
   "Exam: please submit the essay on canvas.",
   "some remarks that go on for a while here; Park wrote another long title about that",
   "  some remarks that go on for a while ",
   "www.example.org/a",
   "some remarks at www.example.org/a that go on for a while; Smith (2020) Gender and power in theory",
   " ",
   ManyClauses}

RECURSIVE SeqsOf(_, _)
SeqsOf(S, n) ==
  IF n = 0 THEN {<<>>}
  ELSE LET shorter == SeqsOf(S, n - 1)
       IN shorter \cup {Append(q, p) : q \in shorter, p \in S}

RECURSIVE TotalLen(_, _)
TotalLen(contents, k) == IF k = 0 THEN 0 ELSE TotalLen(contents, k - 1) + Len(contents[k])

\* the text runs of a document with these contents; the body starts at index 1
Document(contents) ==
  [k \in 1..Len(contents) |->
     [content |-> contents[k],
      startIndex |-> 1 + TotalLen(contents, k - 1),
      endIndex |-> 1 + TotalLen(contents, k)]]

\* the documents of at most n text runs
Documents(n) ==
  {Document(q) : q \in SeqsOf(DocPieces, n) \cup {<<p>> : p \in SinglePieces}}

Init ==
  /\ pc = "collect"
  /\ available \in BOOLEAN
  /\ doc \in Documents(IF available THEN MaxNlpFrags ELSE MaxFrags)
  /\ lines = <<>>
  /\ merged = <<>>
  /\ pending = <<>>
  /\ idx = 0
  /\ stack = <<>>
  /\ stats = EmptyStats
  /\ current_week = 0
  /\ log = <<>>
  /\ normIn = ""
  /\ normOut = <<>>
  /\ splitIn = ""
  /\ splitOut = <<>>
  /\ NoMergeCall
  /\ NoAnalyzer
  /\ NoRuns
  /\ NoCall
  /\ NoDownload

\* raw_lines = collect_raw_lines(doc['body']['content'])
CollectRawLines ==
  /\ pc = "collect"
  /\ lines' = collect_raw_lines(doc, 1)
  /\ idx' = 1
  /\ pc' = "merge"
  /\ UNCHANGED <<available, doc, merged, pending, stack, stats, current_week, log>>
  /\ UNCHANGED funcVars

\* the body of the loop of merge_fragmented_lines for the line item, whose
\* stripped text is text
MergeItem(item, text) ==
  IF text = "" THEN UNCHANGED <<merged, pending>>
  ELSE IF pending = <<>>
  THEN pending' = <<NewUnit(item, text)>> /\ UNCHANGED merged
  ELSE \E nlp \in NlpAnswers :
         IF should_merge_lines(pending[1].full_text, text, available, nlp)
         THEN /\ pending' = <<MergedUnit(pending[1], item, text)>>
              /\ UNCHANGED merged
         ELSE /\ merged' = Append(merged, pending[1])
              /\ pending' = <<NewUnit(item, text)>>

\* one iteration of the loop of merge_fragmented_lines
MergeLine ==
  /\ pc = "merge"
  /\ idx <= Len(lines)
  /\ MergeItem(lines[idx], Strip(lines[idx].text))
  /\ idx' = idx + 1
  /\ UNCHANGED <<pc, available, doc, lines, stack, stats, current_week, log>>
  /\ UNCHANGED funcVars

\* the end of merge_fragmented_lines, and stats['merged_lines']
MergeReturn ==
  /\ pc = "merge"
  /\ idx > Len(lines)
  /\ merged' = merged \o pending
  /\ stats' = IF Len(lines) - Len(merged') > 0
              THEN [stats EXCEPT !.merged_lines = Len(lines) - Len(merged')]
              ELSE stats
  /\ idx' = 1
  /\ pc' = "classify"
  /\ UNCHANGED <<available, doc, lines, pending, stack, current_week, log>>
  /\ UNCHANGED funcVars

\* classify_line(item), up to its calls of classify_single_text
ClassifyLine ==
  /\ pc = "classify"
  /\ stack = <<>>
  /\ idx <= Len(merged)
  /\ stack' = LineCalls(merged[idx], split_concatenated_readings(merged[idx].full_text))
  /\ idx' = idx + 1
  /\ UNCHANGED <<pc, available, doc, lines, merged, pending, stats, current_week, log>>
  /\ UNCHANGED funcVars

\* the effect of one call of classify_single_text that takes this branch
ClassifyEffect(call, score, instr_score, split_texts, branch, week, has_url) ==
  /\ branch = "split" => call.depth < MaxDepth
  /\ stats' = Recorded(stats, ItemOf(call, week, score, instr_score, has_url, branch),
                       branch)
  /\ current_week' = week
  /\ stack' = IF branch = "split"
              THEN SplitCalls(split_texts, call) \o Tail(stack)
              ELSE Tail(stack)
  /\ log' = Append(log, [unit |-> idx - 1, text |-> call.text, branch |-> branch,
                         week |-> week, week_before |-> current_week,
                         depth |-> call.depth, parent |-> call.parent,
                         score |-> score, instr_score |-> instr_score,
                         was_split |-> call.is_split])

ClassifyCall(call, sem, score, split_texts) ==
  LET Effect(branch) ==
        ClassifyEffect(call, score, get_instruction_score(call.text, sem.adjust),
                       split_texts, branch,
                       NewWeek(branch, is_week_header(call.text), current_week),
                       extract_url(call.text))
  IN Effect(Branch(call.text, score, is_instruction(call.text, sem.adjust),
                   split_texts, SemanticType(call.text, sem)))

\* the call with each answer the analyzer can give about its text
ClassifyText(call, split_texts) ==
  \E sem \in SemanticAnswers :
    ClassifyCall(call, sem, get_reading_score(call.text, sem.score, sem.person),
                 split_texts)

\* one call of classify_single_text, up to its recursive calls
ClassifySingleText ==
  /\ pc = "classify"
  /\ stack # <<>>
  /\ ClassifyText(Head(stack), split_concatenated_readings(Head(stack).text))
  /\ UNCHANGED <<pc, available, doc, lines, merged, pending, idx>>
  /\ UNCHANGED funcVars

\* every merged unit has been classified
Summary ==
  /\ pc = "classify"
  /\ stack = <<>>
  /\ idx > Len(merged)
  /\ pc' = "done"
  /\ UNCHANGED docVars
  /\ UNCHANGED funcVars

Next == CollectRawLines \/ MergeLine \/ MergeReturn \/ ClassifyLine
          \/ ClassifySingleText \/ Summary

Spec == Init /\ [][Next]_vars

(***************************************************************************)
(* Properties of the pipeline                                              *)
(***************************************************************************)
\* the texts joined by single spaces
RECURSIVE JoinSp(_)
JoinSp(texts) ==
  IF texts = <<>> THEN ""
  ELSE IF Len(texts) = 1 THEN texts[1]
  ELSE texts[1] \o " " \o JoinSp(Tail(texts))

\* the units are, in order, the joins of consecutive groups of the texts
RECURSIVE Accounts(_, _)
Accounts(texts, units) ==
  IF units = <<>> THEN texts = <<>>
  ELSE \E n \in 1..Len(texts) :
         /\ JoinSp(SubSeq(texts, 1, n)) = Head(units)
         /\ Accounts(SubSeq(texts, n + 1, Len(texts)), Tail(units))

\* the stripped non-empty texts of the first n lines
NonEmptyTexts(n) ==
  SelectSeq([k \in 1..n |-> Strip(lines[k].text)], LAMBDA t : t # "")

\* the lines the merge has gone through
LinesMerged == IF pc = "merge" THEN idx - 1 ELSE Len(lines)

\* C1: the merge drops and reorders nothing: the merged units (with the unit
\* being built) are, in order, the joins by single spaces of consecutive groups
\* of the stripped non-empty texts of the lines read so far; every such text is
\* in exactly one unit and the empty lines are in none
C1_MergeComplete ==
  Accounts(NonEmptyTexts(LinesMerged),
           [k \in 1..Len(merged \o (IF pc = "merge" THEN pending ELSE <<>>)) |->
              (merged \o (IF pc = "merge" THEN pending ELSE <<>>))[k].full_text])

\* two lines and an empty line went into fewer units
C1_Witness ==
  /\ pc = "done"
  /\ Len(lines) = 3
  /\ \E k \in 1..3 : lines[k].text = ""
  /\ Len(merged) = 1
  /\ \E i, j \in 1..3 : /\ i < j /\ lines[i].text # "" /\ lines[j].text # ""
                         /\ merged[1].full_text = lines[i].text \o " " \o lines[j].text

\* the stripped non-empty texts of the lines i..j
TextsBetween(i, j) ==
  SelectSeq([k \in 1..(j - i + 1) |-> Strip(lines[i + k - 1].text)], LAMBDA t : t # "")

\* the unit is made of the lines i..j: it starts where line i starts, ends
\* where line j ends, and its text is the join of their non-empty texts
MadeOf(unit, i, j) ==
  /\ Strip(lines[i].text) # ""
  /\ Strip(lines[j].text) # ""
  /\ unit.start = lines[i].start
  /\ unit.end = lines[j].end
  /\ unit.full_text = JoinSp(TextsBetween(i, j))

\* the units finished and the unit being built
UnitsSoFar == merged \o (IF pc = "merge" THEN pending ELSE <<>>)

\* C12: every merged unit, finished or being built, covers a contiguous run of
\* the lines read so far: it starts where its first line starts and ends where
\* its last line ends
C12_UnitSpansItsLines ==
  \A u \in 1..Len(UnitsSoFar) :
    \E i \in 1..LinesMerged : \E j \in i..LinesMerged : MadeOf(UnitsSoFar[u], i, j)

\* a unit made of three lines, after two merges
C12_Witness ==
  /\ pc = "done"
  /\ Len(lines) = 3
  /\ Len(merged) = 1
  /\ MadeOf(merged[1], 1, 3)
  /\ Len(TextsBetween(1, 3)) = 3

\* the week number of the most recent header before entry k that names a
\* week, or 0
LastHeaderWeek(k) ==
  LET Week(js) == IF js = {} THEN 0
                  ELSE is_week_header(log[CHOOSE j \in js : \A i \in js : i <= j].text)
  IN Week({j \in 1..(k - 1) :
             log[j].branch = "header" /\ is_week_header(log[j].text) # None})

\* C2: every classified item that is not a header is tagged with the week
\* number extracted from the most recent preceding header, or 0 without one
C2_WeekOfLastHeader ==
  \A k \in 1..Len(log) :
    log[k].branch \notin {"header", "split"} => log[k].week = LastHeaderWeek(k)

ScoredLists == {"headers", "instructions", "readings", "uncertain"}

\* C3: a text shorter than 20 characters that reaches classification is
\* labelled too_short and leaves the week as it was; it is in the too_short
\* list and in none of the lists of headers, instructions, readings and
\* uncertain items
C3_TooShortOnly ==
  /\ \A k \in 1..Len(log) :
       Len(log[k].text) < TooShort =>
         log[k].branch = "too_short" /\ log[k].week = log[k].week_before
  /\ \A name \in ScoredLists : \A i \in 1..Len(stats[name]) :
       Len(stats[name][i].full_text) >= TooShort
  /\ Len(stats.too_short) = Cardinality({k \in 1..Len(log) : Len(log[k].text) < TooShort})
  /\ \A i \in 1..Len(stats.too_short) : stats.too_short[i].classification = "too_short"

\* a short text that is_header takes for a header and that names a week
C3_Witness ==
  \E k \in 1..Len(log) :
    /\ Len(log[k].text) < TooShort
    /\ is_header(log[k].text)
    /\ is_week_header(log[k].text) \notin {None, 0}
    /\ log[k].branch = "too_short"

\* the entries of the record that classify (parts of) the unit
EntriesOf(unit) == SelectSeq(log, LAMBDA e : e.unit = unit)

\* C4 as claimed: a merged unit of 20 characters or more for which is_header
\* holds is classified as a header as a whole and never split
C4_HeaderUnitWhole ==
  pc = "done" =>
    \A unit \in 1..Len(merged) :
      (Len(merged[unit].full_text) >= TooShort /\ is_header(merged[unit].full_text)) =>
        /\ Len(EntriesOf(unit)) = 1
        /\ EntriesOf(unit)[1].branch = "header"
        /\ EntriesOf(unit)[1].text = merged[unit].full_text

\* the condition on which classify_line tries to split the unit first
Composite(text) ==
  /\ Len(text) > LongLine
  /\ \/ Len(extract_author_year_pairs(text)) > 1
     \/ Len(FindIter(AuthorLike, text, FALSE)) > 2

\* C4 amended: every text of 20 characters or more that classify_single_text
\* receives and for which is_header holds is classified as a header, whatever
\* its scores, and is not split; a merged unit for which is_header holds is
\* classified as a header as a whole unless it is longer than 60 characters
\* and holds several author-year pairs or author-like starts
C4_HeaderPriority ==
  /\ \A k \in 1..Len(log) :
       (Len(log[k].text) >= TooShort /\ is_header(log[k].text)) => log[k].branch = "header"
  /\ pc = "done" =>
       \A unit \in 1..Len(merged) :
         (/\ Len(merged[unit].full_text) >= TooShort
          /\ is_header(merged[unit].full_text)
          /\ ~Composite(merged[unit].full_text)) =>
           /\ Len(EntriesOf(unit)) = 1
           /\ EntriesOf(unit)[1].branch = "header"
           /\ EntriesOf(unit)[1].text = merged[unit].full_text

\* a header whose reading score alone would make it a reading
C4_Witness ==
  /\ pc = "done"
  /\ \E i \in 1..Len(stats.headers) :
       /\ stats.headers[i].score >= ReadingThreshold
       /\ ~stats.headers[i].was_split
       /\ stats.headers[i].full_text = merged[1].full_text

\* C5: the unit "Week 5" is classified as a header with week 5, and the next
\* reading after it is tagged week 5
C5_Week5Header ==
  \A k \in 1..Len(log) :
    log[k].text = "Week 5" =>
      /\ log[k].branch = "header"
      /\ log[k].week = 5
      /\ \A j \in (k + 1)..Len(log) :
           (/\ log[j].branch = "reading"
            /\ \A i \in (k + 1)..(j - 1) : log[i].branch # "reading") => log[j].week = 5

\* the number of characters of the text that are not white space
NonSpace(text) == Cardinality({i \in 1..Len(text) : Char(text, i) \notin Space})

\* C10 as claimed: every recursive call of classify_single_text receives a
\* text strictly shorter than the text that was split
C10_SegmentsShorter ==
  \A k \in 1..Len(log) : log[k].depth > 0 => Len(log[k].text) < Len(log[k].parent)

\* C10 amended: the classification of every unit terminates: every recursive
\* call of classify_single_text, made or still to be made, receives a text with
\* strictly fewer characters other than white space than the text that was
\* split, and the recursion stays less than MaxDepth deep
C10_Terminates ==
  /\ \A k \in 1..Len(log) :
       log[k].depth > 0 => NonSpace(log[k].text) < NonSpace(log[k].parent)
  /\ \A k \in 1..Len(stack) :
       /\ stack[k].depth < MaxDepth
       /\ stack[k].depth > 0 => NonSpace(stack[k].text) < NonSpace(stack[k].parent)

\* a recursive call on a segment that is longer than the text that was split
C10_Witness ==
  /\ pc = "done"
  /\ \E k \in 1..Len(log) : log[k].depth > 0 /\ Len(log[k].text) > Len(log[k].parent)

\* the label the rule tables alone give a text that is long enough, no
\* header and no instruction, and that the split leaves whole
RuleLabel(score) ==
  IF score >= ReadingThreshold THEN "reading"
  ELSE IF score >= 1 THEN "maybe_reading"
  ELSE "unknown"

\* the text is decided by its reading score: 20 characters or more, no
\* header, instruction score below 3 by the rule tables, and not split
ScoreDecides(text) ==
  /\ Len(text) >= TooShort
  /\ ~is_header(text)
  /\ get_instruction_score(text, 0) < InstructionThreshold
  /\ Len(split_concatenated_readings(text)) <= 1

\* C13: with the analyzer unavailable, every text that its reading score
\* decides is labelled by the rule tables alone: reading for a score of 3 or
\* more, maybe_reading for 1 or 2, unknown for 0 or less; and once the run is
\* done every merged unit has been given a label
C13_RuleTablesAlone ==
  ~available =>
    /\ \A k \in 1..Len(log) :
         ScoreDecides(log[k].text) =>
           log[k].branch = RuleLabel(get_reading_score(log[k].text, 0, FALSE))
    /\ pc = "done" =>
         \A unit \in 1..Len(merged) :
           /\ EntriesOf(unit) # <<>>
           /\ \E k \in 1..Len(log) : log[k].unit = unit /\ log[k].branch # "split"

\* without the analyzer, a text with a score of 1 or 2 that cannot be split
C13_Witness ==
  /\ ~available
  /\ pc = "done"
  /\ \E k \in 1..Len(log) :
       /\ ScoreDecides(log[k].text)
       /\ get_reading_score(log[k].text, 0, FALSE) \in {1, 2}
       /\ log[k].branch = "maybe_reading"

\* C16: split_concatenated_readings returns exactly two segments for the
\* text of two numbered citations, and the unit with that text is classified
\* as two readings, one for each segment
C16_NumberedPairSplit ==
  pc = "done" =>
    \A unit \in 1..Len(merged) :
      merged[unit].full_text = NumberedPair =>
        /\ Len(split_concatenated_readings(NumberedPair)) = 2
        /\ Len(SelectSeq(EntriesOf(unit), LAMBDA e : e.branch # "split")) = 2
        /\ \A k \in 1..Len(EntriesOf(unit)) :
             EntriesOf(unit)[k].branch \in {"reading", "split"}

\* C17: a text of 20 characters or more that is no header and whose
\* instruction score is 3 or more is labelled instruction whatever its reading
\* score; every text that its reading score or the split decides has an
\* instruction score below 3
C17_InstructionBeforeReading ==
  \A k \in 1..Len(log) :
    /\ (/\ Len(log[k].text) >= TooShort
        /\ ~is_header(log[k].text)
        /\ log[k].instr_score >= InstructionThreshold) => log[k].branch = "instruction"
    /\ log[k].branch \in {"reading", "split", "semantic_reading", "semantic_instruction",
                          "maybe_reading", "unknown"}
         => log[k].instr_score < InstructionThreshold

\* an instruction whose reading score alone would make it a reading
C17_Witness ==
  \E k \in 1..Len(log) :
    /\ log[k].branch = "instruction"
    /\ log[k].instr_score >= InstructionThreshold
    /\ log[k].score >= ReadingThreshold
    /\ \E i \in 1..Len(stats.instructions) :
         stats.instructions[i].full_text = log[k].text

\* C18: the week is 0 before the first text is classified, and only the
\* classification of a header that names a week changes it: every other call
\* of classify_single_text leaves the week as the call before it left it
C18_WeekChangedByWeekHeaderOnly ==
  /\ log = <<>> => current_week = 0
  /\ log # <<>> => current_week = log[Len(log)].week
  /\ \A k \in 1..Len(log) :
       /\ log[k].week_before = (IF k = 1 THEN 0 ELSE log[k - 1].week)
       /\ log[k].week # log[k].week_before =>
            log[k].branch = "header" /\ is_week_header(log[k].text) # None

\* a week header has changed the week, and a text that names a week but is
\* too short and a reading have left it alone
C18_Witness ==
  /\ pc = "done"
  /\ Len(log) = 3
  /\ log[1].branch = "header" /\ log[1].week_before = 0 /\ log[1].week = 3
  /\ log[2].branch = "too_short" /\ is_week_header(log[2].text) = 5 /\ log[2].week = 3
  /\ log[3].branch = "reading" /\ log[3].week = 3
  /\ current_week = 3

\* C19: a header from which is_week_header extracts a number N, 0 included,
\* makes N the week and is itself tagged week N
C19_WeekHeaderSetsWeek ==
  \A k \in 1..Len(log) :
    (log[k].branch = "header" /\ is_week_header(log[k].text) # None) =>
      /\ log[k].week = is_week_header(log[k].text)
      /\ \A i \in 1..Len(stats.headers) :
           (stats.headers[i].full_text = log[k].text /\ stats.headers[i].start = merged[log[k].unit].start)
             => stats.headers[i].week = is_week_header(log[k].text)

\* the items of the list that carry the flag was_split
SplitItems(name) == SelectSeq(stats[name], LAMBDA item : item.was_split)

\* the classified texts of the list that are segments of a split
SegmentsIn(name) ==
  SelectSeq(log, LAMBDA e : e.branch # "split" /\ ListOf(e.branch) = name /\ e.depth > 0)

\* C20: an item has was_split set exactly when it classifies a segment that
\* split_concatenated_readings returned, at any depth of the recursion; an
\* item classified from a whole merged unit has it false
C20_WasSplitIffSegment ==
  /\ \A k \in 1..Len(log) : log[k].was_split <=> log[k].depth > 0
  /\ \A name \in ScoredLists \cup {"too_short"} :
       /\ Len(SplitItems(name)) = Len(SegmentsIn(name))
       /\ \A i \in 1..Len(SplitItems(name)) :
            SplitItems(name)[i].full_text = SegmentsIn(name)[i].text
  /\ Len(stats.split_readings)
       = Len(SelectSeq(log, LAMBDA e : e.branch = "reading" /\ e.depth > 0))

\* a segment of a segment, flagged, beside a whole unit that is not
C20_Witness ==
  /\ pc = "done"
  /\ \E k \in 1..Len(log) :
       log[k].depth > 1 /\ log[k].branch # "split" /\ log[k].was_split
  /\ \E name \in ScoredLists : SplitItems(name) # <<>>

(***************************************************************************)
(* Inputs: texts made of at most n pieces of a small vocabulary            *)
(***************************************************************************)
RECURSIVE TextsOf(_, _)
TextsOf(pieces, n) ==
  IF n = 0 THEN {""}
  ELSE LET shorter == TextsOf(pieces, n - 1)
       IN shorter \cup {s \o p : s \in shorter, p \in pieces}

\* the five lists of which a classified item is in one
FiveLists == {"headers", "readings", "instructions", "uncertain", "too_short"}

\* it is the item built by the call of log entry e
ItemOfCall(it, e) ==
  /\ it.full_text = e.text
  /\ it.start = merged[e.unit].start
  /\ it.end = merged[e.unit].end
  /\ it.classification = e.branch
  /\ it.was_split = e.was_split
  /\ it.week = e.week
  /\ it.score = e.score
  /\ it.instr_score = e.instr_score

\* how many items of a list are the item of a call like e, and how many
\* calls are like e
Occurrences(list, e) ==
  Cardinality({i \in 1..Len(stats[list]) : ItemOfCall(stats[list][i], e)})

CallsLike(e) ==
  Cardinality({k \in 1..Len(log) :
                 /\ log[k].text = e.text /\ log[k].unit = e.unit
                 /\ log[k].branch = e.branch /\ log[k].was_split = e.was_split
                 /\ log[k].week = e.week /\ log[k].score = e.score
                 /\ log[k].instr_score = e.instr_score})

InList(list, it) == \E i \in 1..Len(stats[list]) : stats[list][i] = it

\* C28: every call of classify_single_text that did not recurse into a split
\* has appended its item to exactly one of headers, readings, instructions,
\* uncertain and too_short, and every call that did recurse to none of them;
\* beside these an item is only in urls and in split_readings, where it is
\* in addition to its list (for a call that recursed, in urls alone)
C28_OneListPerCall ==
  /\ \A k \in 1..Len(log) :
       \A list \in FiveLists :
         Occurrences(list, log[k]) =
           IF log[k].branch # "split" /\ list = ListOf(log[k].branch)
           THEN CallsLike(log[k]) ELSE 0
  /\ \A list \in FiveLists :
       \A i \in 1..Len(stats[list]) :
         \E k \in 1..Len(log) : ItemOfCall(stats[list][i], log[k])
  /\ \A i \in 1..Len(stats.split_readings) : InList("readings", stats.split_readings[i])
  /\ \A i \in 1..Len(stats.urls) :
       stats.urls[i].classification # "split" =>
         \E list \in FiveLists : InList(list, stats.urls[i])

\* a text with a URL was split: its item is in urls alone, one segment is a
\* reading and in split_readings, another is in urls and in uncertain
C28_Witness ==
  /\ pc = "done"
  /\ \E k \in 1..Len(log) : log[k].branch = "split"
  /\ stats.split_readings # <<>>
  /\ \E i \in 1..Len(stats.urls) : stats.urls[i].classification = "split"
  /\ \E i \in 1..Len(stats.urls) : InList("uncertain", stats.urls[i])

AllLists == FiveLists \cup {"urls", "split_readings"}

\* C29: every item of a segment of a split unit carries the start and the end
\* of the whole merged unit, at every depth of splitting: the item of every
\* call made for a segment of unit u has the start and end of merged[u], and
\* every item marked was_split is the item of such a call
C29_SegmentsCarryUnitSpan ==
  /\ \A k \in 1..Len(log) :
       log[k].was_split =>
         \A list \in AllLists :
           \A i \in 1..Len(stats[list]) :
             (/\ stats[list][i].was_split
              /\ stats[list][i].full_text = log[k].text
              /\ stats[list][i].start >= merged[log[k].unit].start
              /\ stats[list][i].start < merged[log[k].unit].end)
               => /\ stats[list][i].start = merged[log[k].unit].start
                  /\ stats[list][i].end = merged[log[k].unit].end
  /\ \A list \in AllLists :
       \A i \in 1..Len(stats[list]) :
         stats[list][i].was_split =>
           \E k \in 1..Len(log) :
             /\ log[k].was_split
             /\ log[k].text = stats[list][i].full_text
             /\ stats[list][i].start = merged[log[k].unit].start
             /\ stats[list][i].end = merged[log[k].unit].end

\* the segments of a segment have been classified, and two items of segments
\* of the unit stand in the lists
C29_Witness ==
  /\ pc = "done"
  /\ \E k \in 1..Len(log) : log[k].depth > 1
  /\ \E l1 \in AllLists, l2 \in AllLists :
       \E i \in 1..Len(stats[l1]), j \in 1..Len(stats[l2]) :
         /\ stats[l1][i].was_split /\ stats[l2][j].was_split
         /\ stats[l1][i].full_text # stats[l2][j].full_text
         /\ stats[l1][i].start = stats[l2][j].start
         /\ stats[l1][i].end = stats[l2][j].end

(***************************************************************************)
(* SpecNormalize: normalize_pdf_text applied to a text and to its result   *)
(***************************************************************************)
MaxNormPieces == 5

NormPieces == {"a", "B", "7", "- ", " ", ENDASH}

NormInit ==
  /\ pc = "normalize"
  /\ normIn \in TextsOf(NormPieces, MaxNormPieces)
  /\ normOut = <<>>
  /\ splitIn = ""
  /\ splitOut = <<>>
  /\ NoMergeCall
  /\ NoAnalyzer
  /\ NoRuns
  /\ NoDocument
  /\ NoCall
  /\ NoDownload

\* x = normalize_pdf_text(x), on the input and then on each result
NormalizeCall ==
  /\ pc = "normalize"
  /\ Len(normOut) < 2
  /\ normOut' = Append(normOut,
                  normalize_pdf_text(IF normOut = <<>> THEN normIn
                                     ELSE normOut[Len(normOut)]))
  /\ UNCHANGED <<pc, normIn, splitIn, splitOut, mergeIn, mergeOut>>
  /\ UNCHANGED otherVars
  /\ UNCHANGED docVars

NormNext == NormalizeCall

SpecNormalize == NormInit /\ [][NormNext]_vars

\* C6: normalize_pdf_text(normalize_pdf_text(x)) = normalize_pdf_text(x)
C6_Idempotent == Len(normOut) = 2 => normOut[2] = normOut[1]

\* C24: normalize_pdf_text removes a hyphen and the white space after it only
\* between two lower-case letters; a break bounded by a digit or an
\* upper-case letter keeps its hyphen, and nothing else of the words is lost:
\* the result is the text with its artifacts replaced, the breaks between
\* lower-case letters rejoined, the white space collapsed and the ends trimmed
C24_RejoinLowerCaseOnly ==
  Len(normOut) >= 1 =>
    normOut[1] =
      Strip(ReSub(WhiteRun, " ",
                  ReSub(Cat(<<Cls(Lower), Lit("-"), Run(Space, 1, -1), Cls(Lower)>>),
                        "ends", ReplaceArtifacts(normIn))))

(***************************************************************************)
(* SpecSplit: split_concatenated_readings applied to a text                *)
(***************************************************************************)
MaxSplitPieces == 3

SplitPieces ==
  {"Smith (2020) Gender and power in theory. ",
   "Jones, 2019. Another long title of work. ",
   "Lee 2017 wrote a rather long title here. ",
   "Kim wrote a rather long title about it ",
   "Intro. ",
   "2. Roe wrote a rather long title about it ",
   "; Park wrote another long title about that ",
   "; further remarks that go on for a while ",
   " "}

SplitInit ==
  /\ pc = "split"
  /\ splitIn \in TextsOf(SplitPieces, MaxSplitPieces)
  /\ splitOut = <<>>
  /\ normIn = ""
  /\ normOut = <<>>
  /\ NoMergeCall
  /\ NoAnalyzer
  /\ NoRuns
  /\ NoDocument
  /\ NoCall
  /\ NoDownload

SplitCall ==
  /\ pc = "split"
  /\ splitOut' = split_concatenated_readings(splitIn)
  /\ pc' = "split_done"
  /\ UNCHANGED <<normIn, normOut, splitIn, mergeIn, mergeOut>>
  /\ UNCHANGED otherVars
  /\ UNCHANGED docVars

SplitNext == SplitCall

SpecSplit == SplitInit /\ [][SplitNext]_vars

\* the letters of a text, in order (no white space, punctuation or digits)
RECURSIVE Letters(_)
Letters(s) ==
  IF Len(s) = 0 THEN ""
  ELSE IF Len(s) = 1 THEN (IF s \in Lower \cup Upper THEN s ELSE "")
  ELSE LET h == Len(s) \div 2
       IN Letters(SubSeq(s, 1, h)) \o Letters(SubSeq(s, h + 1, Len(s)))

RECURSIVE Concat(_)
Concat(ss) == IF ss = <<>> THEN "" ELSE Head(ss) \o Concat(Tail(ss))

\* C7: when the split returns more than one segment, the segments in order
\* hold all the letters of the text (markers, separators, white space apart)
C7_SplitKeepsContent ==
  (pc = "split_done" /\ Len(splitOut) > 1) => Letters(Concat(splitOut)) = Letters(splitIn)

\* C8: when the split returns more than one segment, every segment is longer
\* than 25 characters
C8_SegmentsLong ==
  (pc = "split_done" /\ Len(splitOut) > 1) =>
     \A k \in 1..Len(splitOut) : Len(splitOut[k]) > MinSegment

C8_Witness ==
  /\ pc = "split_done"
  /\ Len(splitOut) > 1
  /\ SplitStrategy(normalize_pdf_text(splitIn)) = 3

MergePrevs ==
  {"Gender and", "Journal of Gender Studies, vol.", "Gender and Power.",
   "He said \"power\"", "Smith, J. (2020). Gender", "(see the review)",
   "some remarks that go on for a while"}

MergeNexts ==
  {"Studies (2020) 14", "Smith (2020) Gender", "Smith, J. (2020). Power",
   "Oxford University Press (2020)", "Smith, John and Jones, Mary (2019) Title",
   "Smith, John and Jones, Mary wrote a very long title indeed (2019)",
   "Gender studies and more of the long title that goes on here (2020)",
   "Power. Oxford University Press.", "pp. 45-60.", "Vol (1999) 3",
   "and the rest of it"}

\* every answer of the analyzer about a pair of lines
AllNlpAnswers(avail) ==
  IF avail
  THEN [person : {"none", "full", "last"}, prevComplete : BOOLEAN, combComplete : BOOLEAN]
  ELSE {[person |-> "none", prevComplete |-> FALSE, combComplete |-> FALSE]}

MergeInit ==
  /\ pc = "should_merge"
  /\ \E avail \in BOOLEAN :
       mergeIn \in [prev : MergePrevs, next : MergeNexts, avail : {avail},
                    nlp : AllNlpAnswers(avail)]
  /\ mergeOut = <<>>
  /\ normIn = ""
  /\ normOut = <<>>
  /\ splitIn = ""
  /\ splitOut = <<>>
  /\ NoAnalyzer
  /\ NoRuns
  /\ NoDocument
  /\ NoCall
  /\ NoDownload

ShouldMergeCall ==
  /\ pc = "should_merge"
  /\ mergeOut' = <<should_merge_lines(mergeIn.prev, mergeIn.next, mergeIn.avail,
                                       mergeIn.nlp)>>
  /\ pc' = "should_merge_done"
  /\ UNCHANGED <<normIn, normOut, splitIn, splitOut, mergeIn>>
  /\ UNCHANGED otherVars
  /\ UNCHANGED docVars

MergeNext == ShouldMergeCall

SpecMerge == MergeInit /\ [][MergeNext]_vars

\* next starts with Capitalized-word[, Initial.] (YYYY)
StartsCitation(next) ==
  ReMatch(Cat(<<CapWord, Opt(Cat(<<Lit(","), Sp0, Cls(Upper), Opt(Lit("."))>>)),
                Sp0, ParenYear>>), next, FALSE)

\* next looks like an author and has (YYYY) within its first 50 characters
AuthorWithYear(next) ==
  /\ looks_like_author(next)
  /\ \E i \in 1..Min2(50, Len(next)) - 5 :
       /\ Char(next, i) = "(" /\ Char(next, i + 5) = ")"
       /\ \A j \in 1..4 : Char(next, i + j) \in Digit

\* prev ends in terminal punctuation or a closing double quote and next
\* matches Capitalized-word ... (YYYY)
ClosedThenCitation(prev, next) ==
  /\ prev # ""
  /\ LastChar(prev) \in TerminalChars
  /\ ReMatch(Cat(<<CapWord, DotStar, ParenYear>>), next, FALSE)

C21_LowerCaseNextMerged ==
  (/\ pc = "should_merge_done"
   /\ ~mergeIn.avail
   /\ ~StartsCitation(mergeIn.next)
   /\ ~AuthorWithYear(mergeIn.next)
   /\ ~ClosedThenCitation(mergeIn.prev, mergeIn.next)
   /\ mergeIn.prev # ""
   /\ LastChar(mergeIn.prev) \notin TerminalChars
   /\ mergeIn.next # ""
   /\ Char(mergeIn.next, 1) \in Lower)
    => mergeOut = <<TRUE>>

(***************************************************************************)
(* SpecAnalyzer: get_semantic_analyzer called again and again, with each   *)
(* spacy.load succeeding or raising OSError                                *)
(***************************************************************************)
MaxCalls == 7

AnalyzerInit ==
  /\ pc = "idle"
  /\ \E lib \in BOOLEAN :
       an = [spacy |-> lib, instance |-> FALSE, nlp |-> "none", global |-> FALSE,
             loads |-> 0, downloads |-> 0, calls |-> 0, raised |-> FALSE]
  /\ normIn = ""
  /\ normOut = <<>>
  /\ splitIn = ""
  /\ splitOut = <<>>
  /\ NoMergeCall
  /\ NoRuns
  /\ NoDocument
  /\ NoCall
  /\ NoDownload

\* the loading of the analyzer touches nothing else
AnalyzerFrame ==
  /\ UNCHANGED <<normIn, normOut, splitIn, splitOut, mergeIn, mergeOut, runs, counters,
                 callIn, callOut, dl>>
  /\ UNCHANGED docVars

\* SemanticAnalyzer.is_available()
is_available == an.spacy /\ an.nlp # "none"

\* get_semantic_analyzer(), up to the first spacy.load of _load_model: the
\* global analyzer is returned when there is one; otherwise SemanticAnalyzer()
\* makes or finds the instance and __init__ loads the model when none is held
GetSemanticAnalyzer ==
  /\ pc = "idle"
  /\ an.calls < MaxCalls
  /\ IF an.global
     THEN an' = [an EXCEPT !.calls = @ + 1] /\ pc' = pc
     ELSE IF an.nlp = "none" /\ an.spacy
     THEN /\ an' = [an EXCEPT !.calls = @ + 1, !.instance = TRUE, !.loads = @ + 1]
          /\ pc' = "load_md"
     ELSE /\ an' = [an EXCEPT !.calls = @ + 1, !.instance = TRUE, !.global = TRUE]
          /\ pc' = pc
  /\ AnalyzerFrame

\* the model is loaded (after so many more downloads); __init__ and
\* SemanticAnalyzer() return and get_semantic_analyzer keeps the analyzer
Loaded(model, downloaded) ==
  /\ an' = [an EXCEPT !.nlp = model, !.global = TRUE, !.downloads = @ + downloaded]
  /\ pc' = "idle"

\* spacy.load("en_core_web_md"), and except OSError
LoadMedium ==
  /\ pc = "load_md"
  /\ \/ Loaded("en_core_web_md", 0)
     \/ pc' = "load_sm" /\ UNCHANGED an
  /\ AnalyzerFrame

\* spacy.load("en_core_web_sm"), and except OSError
LoadSmall ==
  /\ pc = "load_sm"
  /\ \/ Loaded("en_core_web_sm", 0)
     \/ pc' = "download" /\ UNCHANGED an
  /\ AnalyzerFrame

\* the download and the last spacy.load, which no try encloses: its OSError
\* leaves _load_model, __init__ and get_semantic_analyzer, and
\* _semantic_analyzer stays None
DownloadAndLoad ==
  /\ pc = "download"
  /\ \/ Loaded("en_core_web_sm", 1)
     \/ pc' = "idle" /\ an' = [an EXCEPT !.raised = TRUE, !.downloads = @ + 1]
  /\ AnalyzerFrame

AnalyzerNext == GetSemanticAnalyzer \/ LoadMedium \/ LoadSmall \/ DownloadAndLoad

SpecAnalyzer == AnalyzerInit /\ [][AnalyzerNext]_vars

\* C14: a model that cannot be loaded is no error: no exception reaches a
\* caller of get_semantic_analyzer, a call that has returned without a model
\* has returned an analyzer that is kept and is not available, and the model
\* is loaded at most once however many calls are made
C14_LoadFailureIsNoError ==
  /\ ~an.raised
  /\ an.loads <= 1
  /\ (pc = "idle" /\ an.calls > 0 /\ an.nlp = "none") => (an.global /\ ~is_available)

(***************************************************************************)
(* SpecRuns: two runs of clean_syllabus over their own documents, their    *)
(* calls of classify_single_text interleaved in any order (no analyzer).   *)
(* runs[r] holds the merged units of run r, the index of its next unit,    *)
(* its pending calls of classify_single_text and the items it has          *)
(* classified; counters holds the week counters.                           *)
(***************************************************************************)
NumRuns == 2
MaxRunUnits == 2

RunTexts == {"Week 3: Feminist theory.", Reading}

\* the documents of a run, as the texts of their merged units: up to
\* MaxRunUnits of RunTexts, or one unit that classify_line splits
RunDocs ==
  SeqsOf(RunTexts, MaxRunUnits)
    \cup {<<"Week 4: Smith (2020) Gender and power in theory. Jones (2019) Another long title of work.">>}

RECURSIVE UnitsOf(_, _)
UnitsOf(texts, k) ==
  IF k > Len(texts) THEN <<>>
  ELSE <<[full_text |-> texts[k], start |-> k, end |-> k + 1]>> \o UnitsOf(texts, k + 1)

\* a bug that keeps one week counter for all the runs
WeekCellShared(r) == 1

\* current_week = [0] in clean_syllabus: the counter of run r is its own
WeekCell(r) == r

RunsInit ==
  /\ pc = "runs"
  /\ runs \in [1..NumRuns -> {[units |-> UnitsOf(q, 1), idx |-> 1, stack |-> <<>>,
                                items |-> <<>>] : q \in RunDocs}]
  /\ counters = [c \in 1..NumRuns |-> 0]
  /\ normIn = ""
  /\ normOut = <<>>
  /\ splitIn = ""
  /\ splitOut = <<>>
  /\ NoMergeCall
  /\ NoAnalyzer
  /\ NoDocument
  /\ NoCall
  /\ NoDownload

RunsFrame ==
  /\ UNCHANGED <<pc, normIn, normOut, splitIn, splitOut, mergeIn, mergeOut, an,
                 callIn, callOut, dl>>
  /\ UNCHANGED docVars

\* classify_line(item) of run r, up to its calls of classify_single_text
RunClassifyLine(r) ==
  /\ runs[r].stack = <<>>
  /\ runs[r].idx <= Len(runs[r].units)
  /\ runs' = [runs EXCEPT
                ![r].stack = LineCalls(runs[r].units[runs[r].idx],
                               split_concatenated_readings(runs[r].units[runs[r].idx].full_text)),
                ![r].idx = @ + 1]
  /\ UNCHANGED counters
  /\ RunsFrame

\* the effect of one call of classify_single_text of run r
RunEffect(r, call, split_texts, branch, week) ==
  /\ branch = "split" => call.depth < MaxDepth
  /\ counters' = [counters EXCEPT ![WeekCell(r)] = week]
  /\ runs' = [runs EXCEPT
                ![r].stack = IF branch = "split"
                             THEN SplitCalls(split_texts, call) \o Tail(@)
                             ELSE Tail(@),
                ![r].items = IF branch = "split" THEN @
                             ELSE Append(@, [text |-> call.text, branch |-> branch,
                                             week |-> week])]

RunCall(r, call, split_texts, branch) ==
  RunEffect(r, call, split_texts, branch,
            NewWeek(branch, is_week_header(call.text), counters[WeekCell(r)]))

\* the call with each answer the analyzer can give about its text
RunText(r, call, split_texts) ==
  \E sem \in SemanticAnswers :
    RunCall(r, call, split_texts,
            Branch(call.text, get_reading_score(call.text, sem.score, sem.person),
                   is_instruction(call.text, sem.adjust), split_texts,
                   SemanticType(call.text, sem)))

\* one call of classify_single_text of run r, up to its recursive calls
RunClassifySingleText(r) ==
  /\ runs[r].stack # <<>>
  /\ RunText(r, Head(runs[r].stack),
             split_concatenated_readings(Head(runs[r].stack).text))
  /\ RunsFrame

RunsNext ==
  \/ \E r \in 1..NumRuns : RunClassifyLine(r)
  \/ \E r \in 1..NumRuns : RunClassifySingleText(r)

SpecRuns == RunsInit /\ [][RunsNext]_vars

\* C15: the week of every item of a run is what the run alone gives it: the
\* week its own header names, or else the week of the item before it in the
\* same run, 0 for the first; the steps of the other run change nothing
C15_RunsIndependent ==
  \A r \in 1..NumRuns : \A k \in 1..Len(runs[r].items) :
    runs[r].items[k].week =
      NewWeek(runs[r].items[k].branch, is_week_header(runs[r].items[k].text),
              IF k = 1 THEN 0 ELSE runs[r].items[k - 1].week)

\* both runs are under way, the first in week 3 and the second with a
\* reading in week 0
C15_Witness ==
  /\ pc = "runs"
  /\ \A r \in 1..NumRuns : runs[r].items # <<>> /\ runs[r].idx <= Len(runs[r].units)
  /\ runs[1].items[1].week = 3
  /\ runs[2].items[1].branch = "reading"
  /\ runs[2].items[1].week = 0
  /\ counters[1] = 3
  /\ counters[2] = 0

(***************************************************************************)
(* SpecPoints: find_split_points applied to a text.  The offsets it        *)
(* returns are Python's: 0 is the first character.                         *)
(***************************************************************************)
MinContent == 10
MinGap == 30

\* (?<=[.!?)\]\"\'\s]), the look-behind of the four marker patterns
AfterContent == LookBehind({".", "!", "?", ")", "]", "\"", "'"} \cup Space)

\* patterns of find_split_points
SplitPointPatterns ==
  <<Cat(<<AfterContent, Sp0, Run(Digit, 1, 2), Cls({".", ")"}), Sp1,
          LookAhead(Cls(Upper))>>),
    Cat(<<AfterContent, Sp0, Lit("("), Run(Digit, 1, 2), Lit(")"), Sp0,
          LookAhead(Cls(Upper))>>),
    Cat(<<AfterContent, Sp0, Cls(Lower \cup Upper), Cls({".", ")"}), Sp1,
          LookAhead(Cls(Upper))>>),
    Cat(<<AfterContent, Sp0, Cls({BULLET, "-", "*", WHITEBULLET}), Sp1,
          LookAhead(Cls(Upper))>>),
    Cat(<<LookBehind({".", ";", "!", "?"}), Sp1,
          LookAhead(Cat(<<Cls(Upper), Run(Lower, 1, -1),
                          Opt(Cat(<<Lit(","), Sp0, Cls(Upper), Opt(Lit("."))>>)),
                          Sp0, Opt(Cat(<<Lit("et al"), Opt(Lit("."))>>)),
                          Sp0, Lit("("), Run(Digit, 4, 4)>>))>>)>>

\* match.start() of every match of every pattern
MatchStarts(text) ==
  LET Of(ms) == {ms[k][1] - 1 : k \in 1..Len(ms)}
  IN UNION {Of(FindIter(SplitPointPatterns[n], text, FALSE)) :
              n \in 1..Len(SplitPointPatterns)}

\* if pos > 10
SubstantialContent(pos) == pos > MinContent

\* sorted(S)
RECURSIVE Sorted(_)
Sorted(S) ==
  IF S = {} THEN <<>>
  ELSE LET least == CHOOSE x \in S : \A y \in S : x <= y
       IN <<least>> \o Sorted(S \ {least})

\* the filter of find_split_points seen as keeping everything
KeepAll(points, n, last_pos) == SubSeq(points, n, Len(points))

\* the loop that drops the split points closer than 30 characters to the
\* last one kept
RECURSIVE FilterClose(_, _, _)
FilterClose(points, n, last_pos) ==
  IF n > Len(points) THEN <<>>
  ELSE IF points[n] - last_pos >= MinGap
       THEN <<points[n]>> \o FilterClose(points, n + 1, points[n])
       ELSE FilterClose(points, n + 1, last_pos)

find_split_points(text) ==
  LET split_points == Sorted({pos \in MatchStarts(text) : SubstantialContent(pos)})
  IN FilterClose(split_points, 1, 0 - MinGap)

MaxPointPieces == 4

PointPieces ==
  {"Abcdefghi.", "Abcdefghij.",
   " 2. Another title of my work.",
   " b) The title of another work.",
   " - Short item.",
   " Smith (2020) wrote it.",
   " (4) Item four."}

PointsInit ==
  /\ pc = "find_split_points"
  /\ callIn \in [text : TextsOf(PointPieces, MaxPointPieces), avail : {FALSE},
                 complete : {FALSE}, person : {"none"}, adjust : {0}]
  /\ callOut = <<>>
  /\ normIn = ""
  /\ normOut = <<>>
  /\ splitIn = ""
  /\ splitOut = <<>>
  /\ NoMergeCall
  /\ NoAnalyzer
  /\ NoRuns
  /\ NoDocument
  /\ NoDownload

\* the frame of a call of a single function
CallFrame ==
  /\ UNCHANGED <<normIn, normOut, splitIn, splitOut, mergeIn, mergeOut, an, runs,
                 counters, callIn, dl>>
  /\ UNCHANGED docVars

FindSplitPointsCall ==
  /\ pc = "find_split_points"
  /\ callOut' = find_split_points(callIn.text)
  /\ pc' = "find_split_points_done"
  /\ CallFrame

PointsNext == FindSplitPointsCall

SpecPoints == PointsInit /\ [][PointsNext]_vars

\* C22: the offsets find_split_points returns are strictly increasing, so
\* without duplicates, and any two consecutive ones differ by at least 30
C22_PointsApart ==
  pc = "find_split_points_done" =>
    \A k \in 1..(Len(callOut) - 1) : callOut[k + 1] - callOut[k] >= 30

\* two offsets returned and a candidate in between dropped for being too close
C22_Witness ==
  /\ pc = "find_split_points_done"
  /\ Len(callOut) >= 2
  /\ \E pos \in MatchStarts(callIn.text) : callOut[1] < pos /\ pos < callOut[2]

\* C23: a candidate position passes the content test exactly when at least 10
\* characters precede it, so the first offset returned is the first
\* candidate at offset 10 or later, and no offset returned is below 10
C23_TenCharsEligible ==
  pc = "find_split_points_done" =>
    LET eligible == {pos \in MatchStarts(callIn.text) : pos >= 10}
    IN /\ eligible # {} => (callOut # <<>> /\ callOut[1] = Sorted(eligible)[1])
       /\ \A k \in 1..Len(callOut) : callOut[k] >= 10

(***************************************************************************)
(* SpecLines: is_incomplete_line, is_continuation_line and                 *)
(* get_instruction_score applied to a text, with the analyzer off or on     *)
(* and answering anything                                                  *)
(***************************************************************************)
LineTexts ==
  {"", "Gender and", "some remarks that go on for a while", "See the notes.",
   "Smith (2020) wrote this.", "Harper Lee (1960) To Kill a Mockingbird",
   "Journal of Gender Studies, vol.", "pp. 45-60.", "and the rest of it",
   "Smith (2020) Gender and power", "Jones, 2019. Another long title of work.",
   "1. Smith (2020) Title of the work.", "Oxford University Press, 2020.",
   "Read Smith (2020) before class.", "doi.org/10.1000/xyz",
   ") Feminist Theory", "45-60.", "Week 3 readings Smith"}

\* what the analyzer can answer about a text
LineAnswers(avail) ==
  IF avail
  THEN [complete : BOOLEAN, person : {"none", "full", "last"}, adjust : {0, -3, 4}]
  ELSE {[complete |-> FALSE, person |-> "none", adjust |-> 0]}

LinesInit ==
  /\ pc = "line"
  /\ \E avail \in BOOLEAN :
       \E text \in LineTexts :
         \E a \in LineAnswers(avail) :
           callIn = [text |-> text, avail |-> avail, complete |-> a.complete,
                     person |-> a.person, adjust |-> a.adjust]
  /\ callOut = <<>>
  /\ normIn = ""
  /\ normOut = <<>>
  /\ splitIn = ""
  /\ splitOut = <<>>
  /\ NoMergeCall
  /\ NoAnalyzer
  /\ NoRuns
  /\ NoDocument
  /\ NoDownload

IsIncompleteLineCall ==
  /\ pc = "line"
  /\ callOut' = <<is_incomplete_line(callIn.text, callIn.avail, callIn.complete)>>
  /\ pc' = "is_incomplete_line_done"
  /\ CallFrame

IsContinuationLineCall ==
  /\ pc = "line"
  /\ callOut' = <<is_continuation_line(callIn.text, callIn.avail, callIn.person)>>
  /\ pc' = "is_continuation_line_done"
  /\ CallFrame

GetInstructionScoreCall ==
  /\ pc = "line"
  /\ callOut' = <<get_instruction_score(callIn.text, callIn.adjust)>>
  /\ pc' = "get_instruction_score_done"
  /\ CallFrame

LinesNext == IsIncompleteLineCall \/ IsContinuationLineCall \/ GetInstructionScoreCall

SpecLines == LinesInit /\ [][LinesNext]_vars

\* C25: with the analyzer available, is_incomplete_line(text) is true exactly
\* when a rule-based test is true, or the analyzer finds the text no complete
\* sentence and the text has author-name shape or a (YYYY) substring; its
\* length alone never makes the analyzer's answer count
C25_ScorerNeedsReadingShape ==
  (pc = "is_incomplete_line_done" /\ callIn.avail) =>
    (callOut[1] <=>
       \/ is_incomplete_line(callIn.text, FALSE, FALSE)
       \/ /\ ~callIn.complete
          /\ \/ looks_like_author(Strip(callIn.text))
             \/ ReSearch(ParenYear, Strip(callIn.text), FALSE))

\* the continuation rules other than the weak one: a journal or publisher
\* prefix, a volume or page marker with a digit, a leading closing quote or
\* parenthesis, a continuation conjunction, a short text of digits only
OtherContinuationRule(text) ==
  \/ \E k \in 1..Len(journal_starts) : StartsWith(text, journal_starts[k])
  \/ \E k \in 1..Len(publisher_starts) : StartsWith(text, publisher_starts[k])
  \/ ReMatch(VolumeStart, text, TRUE)
  \/ StartsWith(text, "\"") \/ StartsWith(text, "'")
  \/ StartsWith(text, RDQUO) \/ StartsWith(text, ")")
  \/ ReMatch(Cat(<<AltLit(<<"and", "or", "in", "of", "for", "the", "a", "an">>),
                   Cls(Space)>>), text, TRUE)
  \/ /\ Len(text) < 40
     /\ ReMatch(Cat(<<Run(Digit \cup Space \cup Dashes \cup {":", ",", "(", ")", "."},
                          1, -1), Eol>>), text, FALSE)

\* C26 as claimed: when the analyzer reports that the text starts with a
\* person name, a text that satisfies one of the other continuation rules is
\* still reported as a continuation
C26_PersonSuppressesWeakRuleOnly ==
  (/\ pc = "is_continuation_line_done"
   /\ callIn.avail
   /\ callIn.person # "none"
   /\ OtherContinuationRule(Strip(callIn.text)))
    => callOut = <<TRUE>>

\* C26 amended: when the analyzer reports that the text starts with a person
\* name, is_continuation_line returns false whatever rule the text satisfies
C26_PersonStartNeverContinuation ==
  (/\ pc = "is_continuation_line_done"
   /\ callIn.avail
   /\ callIn.person # "none")
    => callOut = <<FALSE>>

\* a text with a publisher prefix that the analyzer reports to start with a
\* person name
C26_Witness ==
  /\ pc = "is_continuation_line_done"
  /\ callIn.avail
  /\ callIn.person = "full"
  /\ \E k \in 1..Len(publisher_starts) : StartsWith(callIn.text, publisher_starts[k])
  /\ callOut = <<FALSE>>

\* C27: get_instruction_score lowers the score by 3 for every text whose
\* cleaned form starts with Capitalized-word (YYYY or Capitalized-word, YYYY:
\* the score is 3 less than what the analyzer and the other rules give
C27_AuthorYearLowersScore ==
  (/\ pc = "get_instruction_score_done"
   /\ ReMatch(AuthorYearStart, StripLead(Strip(callIn.text)), FALSE))
    => callOut[1] =
         callIn.adjust
         + (IF is_course_description(Strip(callIn.text)) THEN 4 ELSE 0)
         + ScoreOf(strong_starters, 1, StrLower(StripLead(Strip(callIn.text))), FALSE)
         + ScoreOf(instr_medium_patterns, 1, StrLower(StripLead(Strip(callIn.text))), FALSE)
         + ScoreOf(instr_weak_patterns, 1, StrLower(StripLead(Strip(callIn.text))), FALSE)
         + ScoreOf(Tail(instr_negative_patterns), 1,
                   StrLower(StripLead(Strip(callIn.text))), FALSE)
         - 3

(***************************************************************************)
(* SpecDownload: runs of download_readings over two documents that share    *)
(* the one progress file, one step per line of the document, with resets    *)
(* of the progress (main --reset) between runs.  What the services answer   *)
(* (whether a link can be inserted, whether a PDF is matched, found,        *)
(* uploaded) is chosen freely in every step.                                *)
(***************************************************************************)
NumDownloads == 3
MaxResets == 1

\* get_doc_content(docs, doc_id): the lines of the two documents; reading is
\* is_reading(text), url is extract_url(text)
DocLines(doc_id) ==
  IF doc_id = "A"
  THEN <<[start |-> 1, reading |-> TRUE, url |-> TRUE],
         [start |-> 5, reading |-> FALSE, url |-> FALSE],
         [start |-> 9, reading |-> TRUE, url |-> FALSE]>>
  ELSE <<[start |-> 1, reading |-> TRUE, url |-> FALSE]>>

\* load_progress(doc_id)
load_progress(file, doc_id) ==
  IF file # <<>> /\ file[1].doc_id = doc_id THEN file[1].done ELSE {}

\* a bug that processes every reading, done or not
SkippedNonReading(item, done) == ~item.reading

\* the two tests that skip a line
Skipped(item, done) == ~item.reading \/ item.start \in done

\* what the services answer in one step
Answers == [url_ok : BOOLEAN, match : BOOLEAN, match_ok : BOOLEAN, pdf : BOOLEAN,
            upload : BOOLEAN, link_ok : BOOLEAN]

\* the path one reading takes through the loop body
Outcome(item, env) ==
  IF item.url /\ env.url_ok THEN "url"
  ELSE IF env.match /\ env.match_ok THEN "matched"
  ELSE IF ~env.pdf THEN "no_pdf"
  ELSE IF ~env.upload THEN "upload_failed"
  ELSE IF env.link_ok THEN "uploaded"
  ELSE "link_failed"

\* the paths on which done.add(item['start']) and save_progress are reached
AddsToDone(outcome) == outcome \in {"url", "matched", "no_pdf", "uploaded"}

\* the paths on which add_link_to_doc has returned
AddsLink(outcome) == outcome \in {"url", "matched", "uploaded"}

\* found, failed, web_links, matched after the step
Counted(counts, outcome) ==
  CASE outcome = "url" -> [counts EXCEPT !.web_links = @ + 1]
    [] outcome = "matched" -> [counts EXCEPT !.matched = @ + 1]
    [] outcome = "uploaded" -> [counts EXCEPT !.found = @ + 1]
    [] OTHER -> [counts EXCEPT !.failed = @ + 1]

\* the line the loop is at
CurrentItem == DocLines(dl.doc_id)[Len(DocLines(dl.doc_id)) - dl.pos + 1]

DownloadInit ==
  /\ pc = "download"
  /\ NoDownload
  /\ normIn = ""
  /\ normOut = <<>>
  /\ splitIn = ""
  /\ splitOut = <<>>
  /\ NoMergeCall
  /\ NoAnalyzer
  /\ NoRuns
  /\ NoDocument
  /\ NoCall

DownloadFrame ==
  /\ UNCHANGED <<pc, normIn, normOut, splitIn, splitOut, mergeIn, mergeOut, an, runs,
                 counters, callIn, callOut>>
  /\ UNCHANGED docVars

\* download_readings(docs, drive, doc_id, ...) up to the loop
DownloadStart ==
  /\ dl.pos = 0
  /\ Len(dl.started) < NumDownloads
  /\ \E doc_id \in {"A", "B"} :
       dl' = [dl EXCEPT !.doc_id = doc_id, !.done = load_progress(dl.file, doc_id),
                        !.pos = 1, !.started = Append(@, doc_id),
                        !.counts = [found |-> 0, failed |-> 0, web_links |-> 0,
                                    matched |-> 0]]
  /\ DownloadFrame

\* a line that is no reading or is done: continue
DownloadSkip ==
  /\ dl.pos >= 1
  /\ dl.pos <= Len(DocLines(dl.doc_id))
  /\ Skipped(CurrentItem, dl.done)
  /\ dl' = [dl EXCEPT !.pos = @ + 1]
  /\ DownloadFrame

\* save_progress(doc_id, done)
save_progress(doc_id, done) == <<[doc_id |-> doc_id, done |-> done]>>

\* one reading through the loop body
DownloadStep(item, outcome, done, file) ==
  dl' = [dl EXCEPT
           !.pos = @ + 1,
           !.done = done,
           !.file = file,
           !.links = IF AddsLink(outcome) THEN @ \cup {<<dl.doc_id, item.start>>} ELSE @,
           !.counts = Counted(@, outcome),
           !.log = Append(@, [kind |-> "item", run |-> Len(dl.started),
                              doc_id |-> dl.doc_id, start |-> item.start,
                              outcome |-> outcome,
                              was_done |-> item.start \in dl.done,
                              linked |-> AddsLink(outcome),
                              added |-> item.start \in done,
                              saved |-> file = save_progress(dl.doc_id, done)
                                        /\ item.start \in done])]

DownloadItem ==
  /\ dl.pos >= 1
  /\ dl.pos <= Len(DocLines(dl.doc_id))
  /\ ~Skipped(CurrentItem, dl.done)
  /\ \E env \in Answers :
       LET outcome == Outcome(CurrentItem, env)
           done == IF AddsToDone(outcome) THEN dl.done \cup {CurrentItem.start}
                   ELSE dl.done
       IN DownloadStep(CurrentItem, outcome, done,
                       IF AddsToDone(outcome) THEN save_progress(dl.doc_id, done)
                       ELSE dl.file)
  /\ DownloadFrame

\* return found, failed, web_links, matched
DownloadReturn ==
  /\ dl.pos = Len(DocLines(dl.doc_id)) + 1
  /\ dl' = [dl EXCEPT !.pos = 0]
  /\ DownloadFrame

\* main with --reset: the progress file is removed
ResetProgress ==
  /\ dl.pos = 0
  /\ dl.resets < MaxResets
  /\ dl.file # <<>>
  /\ dl' = [dl EXCEPT !.file = <<>>, !.resets = @ + 1,
                      !.log = Append(@, [kind |-> "reset", run |-> Len(dl.started),
                                         doc_id |-> "", start |-> 0, outcome |-> "",
                                         was_done |-> FALSE, linked |-> FALSE,
                                         added |-> FALSE, saved |-> FALSE])]
  /\ DownloadFrame

DownloadNext ==
  DownloadStart \/ DownloadSkip \/ DownloadItem \/ DownloadReturn \/ ResetProgress

SpecDownload == DownloadInit /\ [][DownloadNext]_vars

\* the entries of the record that are readings processed
ItemEntries == {k \in 1..Len(dl.log) : dl.log[k].kind = "item"}

\* the next run on the document of run r after run r, or 0
NextRunOn(r) ==
  IF \E r2 \in (r + 1)..Len(dl.started) : dl.started[r2] = dl.started[r]
  THEN CHOOSE r2 \in (r + 1)..Len(dl.started) :
         /\ dl.started[r2] = dl.started[r]
         /\ \A r3 \in (r + 1)..(r2 - 1) : dl.started[r3] # dl.started[r]
  ELSE 0

\* run r2 has come past the line of doc_id that starts at start
PastLine(r2, doc_id, start) ==
  \/ r2 < Len(dl.started)
  \/ dl.pos = 0
  \/ \E p \in 1..(dl.pos - 1) :
       DocLines(doc_id)[Len(DocLines(doc_id)) - p + 1].start = start

\* a start is added to done, and saved, exactly when a link was added or no
\* PDF was found
AddedWhenLinkedOrNoPdf ==
  \A k \in ItemEntries :
    /\ dl.log[k].added <=> (dl.log[k].linked \/ dl.log[k].outcome = "no_pdf")
    /\ dl.log[k].added <=> dl.log[k].saved

\* a reading whose upload failed, or whose link could not be inserted after
\* the upload, is not added and is processed again on the next run on its
\* document
FailedProcessedAgain ==
  \A k \in ItemEntries :
    dl.log[k].outcome \in {"upload_failed", "link_failed"} =>
      /\ ~dl.log[k].added
      /\ (/\ NextRunOn(dl.log[k].run) # 0
          /\ PastLine(NextRunOn(dl.log[k].run), dl.log[k].doc_id, dl.log[k].start))
          => \E j \in ItemEntries :
               /\ dl.log[j].run = NextRunOn(dl.log[k].run)
               /\ dl.log[j].start = dl.log[k].start

\* between two entries of the record the progress was lost in one of these ways
LostBetween(i, j, ways) ==
  \E m \in (i + 1)..(j - 1) :
    \/ "reset" \in ways /\ dl.log[m].kind = "reset"
    \/ /\ "other" \in ways
       /\ dl.log[m].kind = "item"
       /\ dl.log[m].doc_id # dl.log[i].doc_id
       /\ dl.log[m].saved

\* a reading whose start is in done is not processed, and one that was added
\* to done is not processed again unless the progress was lost in between
DoneNotProcessedUntil(ways) ==
  /\ \A k \in ItemEntries : ~dl.log[k].was_done
  /\ \A i \in ItemEntries, j \in ItemEntries :
       (/\ i < j
        /\ dl.log[i].doc_id = dl.log[j].doc_id
        /\ dl.log[i].start = dl.log[j].start
        /\ dl.log[i].added)
         => LostBetween(i, j, ways)

\* C30 as claimed: a start is added to done and saved exactly when a link was
\* added or no PDF was found; a reading whose upload or link insertion failed
\* is processed again on the next run; a reading that is in done is never
\* processed again until the progress is reset
C30_DoneUntilReset ==
  /\ AddedWhenLinkedOrNoPdf
  /\ FailedProcessedAgain
  /\ DoneNotProcessedUntil({"reset"})

\* C30 amended: the same, but a reading that is in done is processed again
\* also after a run on another document has saved its own progress over the
\* progress file
C30_DoneUntilProgressLost ==
  /\ AddedWhenLinkedOrNoPdf
  /\ FailedProcessedAgain
  /\ DoneNotProcessedUntil({"reset", "other"})

\* a reading whose upload failed is processed again on the next run on its
\* document, and a reading that was done is processed again after a run on
\* the other document has saved its progress
C30_Witness ==
  /\ \E i \in ItemEntries, j \in ItemEntries :
       /\ dl.log[i].outcome = "upload_failed"
       /\ dl.log[j].run > dl.log[i].run
       /\ dl.log[j].doc_id = dl.log[i].doc_id
       /\ dl.log[j].start = dl.log[i].start
       /\ dl.log[j].outcome = "uploaded"
  /\ \E i \in ItemEntries, j \in ItemEntries :
       /\ i < j
       /\ dl.log[i].added
       /\ dl.log[j].doc_id = dl.log[i].doc_id
       /\ dl.log[j].start = dl.log[i].start
       /\ LostBetween(i, j, {"other"})
       /\ ~LostBetween(i, j, {"reset"})

====
